---- MODULE Spec2Model ----
(***************************************************************************)
(* Accuracy-evaluation engine of the AI-vs-plan dashboard:                 *)
(*   utils/error_calculator.py  error rates, weighted average, banding     *)
(*   utils/data_processor.py    ABC segmentation and its validators        *)
(*   pages/matrix.py            counts of the band matrix                  *)
(*   pages/upload.py            the dataset-creation flow (session state)  *)
(*                                                                         *)
(* Numbers.  pandas columns hold floats; the model holds exact rationals   *)
(* plus the two non-finite values the code produces, NaN and +inf.  A      *)
(* number is a record [k, n, d]: k = "num" is the rational n/d in lowest   *)
(* terms with d > 0, k = "nan" and k = "inf" carry n = 0, d = 1.           *)
(* Ratios of the tier configuration are held in percent (0.5 is 50).       *)
(***************************************************************************)
EXTENDS Integers, Sequences, FiniteSets, TLC

VARIABLES
    epc,        \* error pipeline: "idle" | "loaded" | "rates" | "matrix"
    df,         \* error pipeline: the (filtered) dataset, rows [Actual, Plan]
    edf,        \* error_data[col]: df with the error-rate columns attached
    etype,      \* error_type of the last matrix ("none" before)
    ecat,       \* error_category column of the last matrix
    matrix,     \* last matrix column: band counts, total count, weighted avg
    vpc,        \* validator run: "idle", "input", "validated", "quantity input", ...
    vcfg,       \* validator run: the tier list handed to the validator
    vres,       \* validator run: (is_valid, error_message)
    spc,        \* segmentation call: "idle" | "input" | "done" | "raised"
    sdf,        \* segmentation call: the dataset passed in
    sargs,      \* segmentation call: mode, categories, target_categories, preserve_existing
    sout,       \* segmentation call: the dataset returned
    original_data,            \* upload page: the uploaded dataset
    data,                     \* upload page: session data (None until mapped)
    mapping_completed,        \* upload page: session flag
    abc_categories,           \* upload page: stored ratio tiers
    abc_quantity_categories,  \* upload page: stored quantity tiers
    abc_setting_mode,         \* upload page: "ratio" | "quantity"
    runs,                     \* upload page: user interactions so far
    glog,                     \* upload page: what the last generate press did
    rpc,        \* reports: "idle" | "loaded" | "shown"
    rdf,        \* reports: the (filtered) dataset, rows [Actual, Plan, Class_abc]
    rtab,       \* reports: the tier average table of the scatter page
    rmat,       \* reports: the band x tier matrix of the matrix page
    mpc,        \* tier summary: "idle" | "loaded" | "shown"
    mdf,        \* tier summary: the segmented dataset the table is built from
    mtab,       \* tier summary: the rows and the total row of the table
    fpc,        \* matrix page filters: "idle" | "loaded" | "filtered"
    fdf,        \* matrix page filters: the session dataset [columns, rows]
    fsel,       \* matrix page filters: the category, period and evaluation chosen
    fout        \* matrix page filters: the frame apply_filters returned

errVars == <<epc, df, edf, etype, ecat, matrix>>

valVars == <<vpc, vcfg, vres>>

segVars == <<spc, sdf, sargs, sout>>

uiVars ==
    <<original_data, data, mapping_completed, abc_categories, abc_quantity_categories,
      abc_setting_mode, runs, glog>>

repVars == <<rpc, rdf, rtab, rmat>>

sumVars == <<mpc, mdf, mtab>>

filVars == <<fpc, fdf, fsel, fout>>

vars == <<errVars, valVars, segVars, uiVars, repVars, sumVars, filVars>>

exceptErr == <<valVars, segVars, uiVars, repVars, sumVars, filVars>>

exceptVal == <<errVars, segVars, uiVars, repVars, sumVars, filVars>>

exceptSeg == <<errVars, valVars, uiVars, repVars, sumVars, filVars>>

exceptUi == <<errVars, valVars, segVars, repVars, sumVars, filVars>>

exceptRep == <<errVars, valVars, segVars, uiVars, sumVars, filVars>>

exceptSum == <<errVars, valVars, segVars, uiVars, repVars, filVars>>

exceptFil == <<errVars, valVars, segVars, uiVars, repVars, sumVars>>

----------------------------------------------------------------------------
(* Floats *)

NaN == [k |-> "nan", n |-> 0, d |-> 1]

PosInf == [k |-> "inf", n |-> 0, d |-> 1]

AbsInt(i) == IF i < 0 THEN -i ELSE i

RECURSIVE GCD(_, _)
GCD(a, b) == IF b = 0 THEN a ELSE GCD(b, a % b)

\* the rational n/d (d # 0) in lowest terms with a positive denominator
Q(n, d) ==
    LET g == GCD(AbsInt(n), AbsInt(d))
        s == IF d < 0 THEN -1 ELSE 1
    IN  [k |-> "num", n |-> (s * n) \div g, d |-> (s * d) \div g]

I(i) == Q(i, 1)

IsNaN(x) == x.k = "nan"

IsInf(x) == x.k = "inf"

IsNum(x) == x.k = "num"

\* x - y, float semantics (y is never infinite in the code's uses)
Sub(x, y) ==
    IF IsNaN(x) \/ IsNaN(y) THEN NaN
    ELSE IF IsInf(x) THEN PosInf
    ELSE Q(x.n * y.d - y.n * x.d, x.d * y.d)

Add(x, y) ==
    IF IsNaN(x) \/ IsNaN(y) THEN NaN
    ELSE IF IsInf(x) \/ IsInf(y) THEN PosInf
    ELSE Q(x.n * y.d + y.n * x.d, x.d * y.d)

Mul(x, y) ==
    IF IsNaN(x) \/ IsNaN(y) THEN NaN
    ELSE IF IsInf(x) \/ IsInf(y)
         THEN (IF (IsNum(x) /\ x.n = 0) \/ (IsNum(y) /\ y.n = 0) THEN NaN ELSE PosInf)
    ELSE Q(x.n * y.n, x.d * y.d)

\* x / y for a finite non-zero or NaN divisor
Div(x, y) ==
    IF IsNaN(x) \/ IsNaN(y) THEN NaN
    ELSE IF IsInf(x) THEN PosInf
    ELSE Q(x.n * y.d, x.d * y.n)

IsZero(x) == IsNum(x) /\ x.n = 0

Abs(x) == IF IsNum(x) THEN [x EXCEPT !.n = AbsInt(x.n)] ELSE x

\* comparisons: every comparison with NaN is False, as in IEEE 754
Lt(x, y) ==
    /\ ~IsNaN(x) /\ ~IsNaN(y)
    /\ \/ IsNum(x) /\ IsInf(y)
       \/ IsNum(x) /\ IsNum(y) /\ x.n * y.d < y.n * x.d

Eq(x, y) ==
    /\ ~IsNaN(x) /\ ~IsNaN(y)
    /\ \/ IsInf(x) /\ IsInf(y)
       \/ IsNum(x) /\ IsNum(y) /\ x.n * y.d = y.n * x.d

Ge(x, y) == ~IsNaN(x) /\ ~IsNaN(y) /\ ~Lt(x, y)

Gt(x, y) == Lt(y, x)

Ne(x, y) == ~Eq(x, y)

Le(x, y) == ~IsNaN(x) /\ ~IsNaN(y) /\ ~Lt(y, x)

RECURSIVE SumSeq(_)
\* Series.sum(): NaN entries are skipped, the empty sum is 0
SumSeq(s) ==
    IF s = <<>> THEN I(0)
    ELSE IF IsNaN(Head(s)) THEN SumSeq(Tail(s))
    ELSE Add(Head(s), SumSeq(Tail(s)))

\* the sum and the product of the integers f[x], x in S
RECURSIVE SumOver(_, _)
SumOver(S, f) ==
    IF S = {} THEN 0
    ELSE LET x == CHOOSE y \in S : TRUE IN f[x] + SumOver(S \ {x}, f)

RECURSIVE ProdOver(_, _)
ProdOver(S, f) ==
    IF S = {} THEN 1
    ELSE LET x == CHOOSE y \in S : TRUE IN f[x] * ProdOver(S \ {x}, f)

\* the subsequence of s at the positions where keep holds, in order
RECURSIVE SelectIdx(_, _, _)
SelectIdx(s, keep(_), i) ==
    IF i > Len(s) THEN <<>>
    ELSE (IF keep(i) THEN <<s[i]>> ELSE <<>>) \o SelectIdx(s, keep, i + 1)

----------------------------------------------------------------------------
(* utils/error_calculator.py *)

\* mutant: the signed rate divided by the comparison value instead of the actual
Mut_ErrorRow_DivByPlan(row, anyZero) ==
    LET actual == row.Actual
        plan == row.Plan
        is_actual_zero == Eq(actual, I(0))
        normal_mask == Ne(actual, I(0))
        normal_rate ==
            IF normal_mask
            THEN (IF IsZero(plan) THEN NaN ELSE Div(Sub(plan, actual), plan))
            ELSE NaN
        positive_pred_mask == is_actual_zero /\ Gt(plan, I(0))
        zero_pred_mask == is_actual_zero /\ Eq(plan, I(0))
        error_rate ==
            IF anyZero /\ (positive_pred_mask \/ zero_pred_mask) THEN PosInf ELSE normal_rate
        positive_mask == Ge(error_rate, I(0))
        negative_mask == Ne(actual, I(0)) /\ Lt(error_rate, I(0))
    IN  [Actual |-> actual,
         Plan |-> plan,
         is_actual_zero |-> is_actual_zero,
         error_rate |-> error_rate,
         absolute_error_rate |-> Abs(error_rate),
         positive_error_rate |-> IF positive_mask THEN error_rate ELSE NaN,
         negative_error_rate |-> IF negative_mask THEN error_rate ELSE NaN]

\* the columns calculate_error_rates attaches to one row
ErrorRow(row, anyZero) ==
    LET actual == row.Actual
        plan == row.Plan
        is_actual_zero == Eq(actual, I(0))
        normal_mask == Ne(actual, I(0))
        normal_rate == IF normal_mask THEN Div(Sub(plan, actual), actual) ELSE NaN
        positive_pred_mask == is_actual_zero /\ Gt(plan, I(0))
        zero_pred_mask == is_actual_zero /\ Eq(plan, I(0))
        error_rate ==
            IF anyZero /\ (positive_pred_mask \/ zero_pred_mask) THEN PosInf ELSE normal_rate
        positive_mask == Ge(error_rate, I(0))
        negative_mask == Ne(actual, I(0)) /\ Lt(error_rate, I(0))
    IN  [Actual |-> actual,
         Plan |-> plan,
         is_actual_zero |-> is_actual_zero,
         error_rate |-> error_rate,
         absolute_error_rate |-> Abs(error_rate),
         positive_error_rate |-> IF positive_mask THEN error_rate ELSE NaN,
         negative_error_rate |-> IF negative_mask THEN error_rate ELSE NaN]

calculate_error_rates(d) ==
    LET anyZero == \E i \in 1..Len(d) : Eq(d[i].Actual, I(0))
    IN  [i \in 1..Len(d) |-> ErrorRow(d[i], anyZero)]

ErrorCol(error_type) ==
    IF error_type = "absolute" THEN "absolute_error_rate"
    ELSE IF error_type = "positive" THEN "positive_error_rate"
    ELSE "negative_error_rate"

\* mutant: records without a rate are not dropped, so their weights are summed
Mut_WeightedAverage_NoDropna(d, error_rate_column, weight_column) ==
    LET finite(i) == ~IsInf(d[i][error_rate_column])
        valid_data == SelectIdx(d, finite, 1)
        weighted_sum ==
            SumSeq([i \in 1..Len(valid_data) |->
                        Mul(valid_data[i][error_rate_column], valid_data[i][weight_column])])
        weight_sum == SumSeq([i \in 1..Len(valid_data) |-> valid_data[i][weight_column]])
    IN  IF Len(valid_data) = 0 THEN NaN
        ELSE IF Eq(weight_sum, I(0)) THEN NaN
        ELSE Div(weighted_sum, weight_sum)

calculate_weighted_average_error_rate(d, error_rate_column, weight_column) ==
    LET notna(i) == ~IsNaN(d[i][error_rate_column]) /\ ~IsNaN(d[i][weight_column])
        dropped == SelectIdx(d, notna, 1)
        finite(i) == ~IsInf(dropped[i][error_rate_column])
        valid_data == SelectIdx(dropped, finite, 1)
        weighted_sum ==
            SumSeq([i \in 1..Len(valid_data) |->
                        Mul(valid_data[i][error_rate_column], valid_data[i][weight_column])])
        weight_sum == SumSeq([i \in 1..Len(valid_data) |-> valid_data[i][weight_column]])
    IN  IF Len(valid_data) = 0 THEN NaN
        ELSE IF Eq(weight_sum, I(0)) THEN NaN
        ELSE Div(weighted_sum, weight_sum)

ErrorTypes == {"absolute", "positive", "negative"}

BandPrefix(error_type) ==
    IF error_type = "absolute" THEN "" ELSE IF error_type = "positive" THEN "+" ELSE "-"

\* config/settings.py ERROR_RATE_CATEGORIES[error_type]
ERROR_RATE_CATEGORIES(error_type) ==
    LET p == BandPrefix(error_type)
        over == IF error_type = "absolute" THEN "100%-" ELSE "100%+"
    IN  << [special |-> FALSE, min |-> Q(0, 10), max |-> Q(1, 10), label |-> p \o "0-10%"],
           [special |-> FALSE, min |-> Q(1, 10), max |-> Q(2, 10), label |-> p \o "10-20%"],
           [special |-> FALSE, min |-> Q(2, 10), max |-> Q(3, 10), label |-> p \o "20-30%"],
           [special |-> FALSE, min |-> Q(3, 10), max |-> Q(5, 10), label |-> p \o "30-50%"],
           [special |-> FALSE, min |-> Q(5, 10), max |-> Q(10, 10), label |-> p \o "50-100%"],
           [special |-> FALSE, min |-> Q(10, 10), max |-> PosInf, label |-> p \o over],
           [special |-> TRUE, min |-> NaN, max |-> NaN, label |-> "incalculable (actual 0)"] >>

Unclassified == "unclassified"

\* the literal categorize_error_rates writes for a zero actual
ZeroActualBand == "incalculable (actual zero)"

\* mutant: bands closed above, (min, max], so a boundary value goes to the lower band
RECURSIVE Mut_NpSelect_ClosedAbove(_, _, _)
Mut_NpSelect_ClosedAbove(rate, categories, i) ==
    IF i > Len(categories) THEN Unclassified
    ELSE IF categories[i].special THEN Mut_NpSelect_ClosedAbove(rate, categories, i + 1)
    ELSE IF (IF IsInf(categories[i].max)
             THEN Gt(rate, categories[i].min)
             ELSE (Gt(rate, categories[i].min) \/ IsZero(rate))
                      /\ ~Gt(rate, categories[i].max))
         THEN categories[i].label
    ELSE Mut_NpSelect_ClosedAbove(rate, categories, i + 1)

\* np.select(conditions, choices, default): the first condition that holds
RECURSIVE NpSelect(_, _, _)
NpSelect(rate, categories, i) ==
    IF i > Len(categories) THEN Unclassified
    ELSE IF categories[i].special THEN NpSelect(rate, categories, i + 1)
    ELSE IF (IF IsInf(categories[i].max)
             THEN Ge(rate, categories[i].min)
             ELSE Ge(rate, categories[i].min) /\ Lt(rate, categories[i].max))
         THEN categories[i].label
    ELSE NpSelect(rate, categories, i + 1)

\* mutant: the zero-actual band is written in the negative view too
Mut_Categorize_ZeroBandAllViews(d, error_rate_column, error_type) ==
    LET categories == ERROR_RATE_CATEGORIES(error_type)
        banded(v) ==
            IF error_type = "positive" THEN v ELSE Abs(v)
    IN  [i \in 1..Len(d) |->
            IF d[i].is_actual_zero THEN ZeroActualBand
            ELSE IF IsNaN(d[i][error_rate_column]) THEN Unclassified
            ELSE NpSelect(banded(d[i][error_rate_column]), categories, 1)]

categorize_error_rates(d, error_rate_column, error_type) ==
    LET anyZero == \E i \in 1..Len(d) : d[i].is_actual_zero
        categories == ERROR_RATE_CATEGORIES(error_type)
        banded(v) ==
            IF error_type = "positive" THEN v ELSE Abs(v)
    IN  [i \in 1..Len(d) |->
            IF d[i].is_actual_zero
            THEN (IF anyZero /\ error_type # "negative" THEN ZeroActualBand ELSE Unclassified)
            ELSE IF IsNaN(d[i][error_rate_column]) THEN Unclassified
            ELSE NpSelect(banded(d[i][error_rate_column]), categories, 1)]

----------------------------------------------------------------------------
(* pages/matrix.py create_basic_matrix, one comparison column *)

Count(s, P(_)) == Cardinality({i \in 1..Len(s) : P(s[i])})

BandCounts(cats, error_type) ==
    LET bands == ERROR_RATE_CATEGORIES(error_type)
    IN  [b \in 1..Len(bands) |-> Count(cats, LAMBDA c : c = bands[b].label)]

TotalCount(d, error_type) ==
    IF error_type = "absolute" THEN Len(d)
    ELSE LET col == ErrorCol(error_type) IN Count(d, LAMBDA r : ~IsNaN(r[col]))

create_basic_matrix(d, error_type) ==
    LET error_col == ErrorCol(error_type)
        error_category == categorize_error_rates(d, error_col, error_type)
    IN  [error_category |-> error_category,
         counts |-> BandCounts(error_category, error_type),
         total |-> TotalCount(d, error_type),
         weighted_avg |-> calculate_weighted_average_error_rate(d, error_col, "Actual")]

----------------------------------------------------------------------------
(* utils/data_processor.py: ratio tier lists and their validator.  A tier  *)
(* is [name, start_ratio, end_ratio], the ratios in percent.                *)

\* config/settings.py ABC_CLASSIFICATION_SETTINGS['default_categories']
default_categories ==
    << [name |-> "A", start_ratio |-> 0, end_ratio |-> 50],
       [name |-> "B", start_ratio |-> 50, end_ratio |-> 80],
       [name |-> "C", start_ratio |-> 80, end_ratio |-> 100] >>

\* sorted(categories, key=start_ratio): stable, ascending
RECURSIVE InsertByStart(_, _)
InsertByStart(sorted, cat) ==
    IF sorted = <<>> THEN <<cat>>
    ELSE IF Head(sorted).start_ratio <= cat.start_ratio
         THEN <<Head(sorted)>> \o InsertByStart(Tail(sorted), cat)
    ELSE <<cat>> \o sorted

RECURSIVE SortByStart(_)
SortByStart(categories) ==
    IF categories = <<>> THEN <<>>
    ELSE InsertByStart(SortByStart(SubSeq(categories, 1, Len(categories) - 1)),
                       categories[Len(categories)])

Names(categories) == {categories[i].name : i \in 1..Len(categories)}

\* the first tier, in list order, whose range check fails (0 when none does)
FirstBadRange(categories) ==
    LET bad == {i \in 1..Len(categories) :
                    \/ categories[i].start_ratio < 0
                    \/ categories[i].end_ratio > 100
                    \/ categories[i].start_ratio >= categories[i].end_ratio}
    IN  IF bad = {} THEN 0 ELSE CHOOSE i \in bad : \A j \in bad : i <= j

\* mutant: touching ranges are reported as overlapping (>= for >)
Mut_FirstOverlap_Touching(sorted_categories) ==
    LET bad == {i \in 1..(Len(sorted_categories) - 1) :
                    sorted_categories[i].end_ratio >= sorted_categories[i + 1].start_ratio}
    IN  IF bad = {} THEN 0 ELSE CHOOSE i \in bad : \A j \in bad : i <= j

\* mutant: the overlap check is left out
Mut_FirstOverlap_None(sorted_categories) == 0

\* the first position of the sorted list that overlaps its successor (0 when none)
FirstOverlap(sorted_categories) ==
    LET bad == {i \in 1..(Len(sorted_categories) - 1) :
                    sorted_categories[i].end_ratio > sorted_categories[i + 1].start_ratio}
    IN  IF bad = {} THEN 0 ELSE CHOOSE i \in bad : \A j \in bad : i <= j

validate_abc_categories(categories) ==
    LET b == FirstBadRange(categories)
        sorted_categories == SortByStart(categories)
        o == FirstOverlap(sorted_categories)
    IN  IF categories = <<>> THEN [ok |-> FALSE, msg |-> "category list is empty"]
        ELSE IF Cardinality(Names(categories)) # Len(categories)
             THEN [ok |-> FALSE, msg |-> "duplicate category names"]
        ELSE IF b # 0
             THEN (IF categories[b].start_ratio < 0 \/ categories[b].end_ratio > 100
                   THEN [ok |-> FALSE,
                         msg |-> "range of category " \o categories[b].name \o " is invalid"]
                   ELSE [ok |-> FALSE,
                         msg |-> "start of category " \o categories[b].name \o " >= its end"])
        ELSE IF o # 0
             THEN [ok |-> FALSE,
                   msg |-> "ranges of " \o sorted_categories[o].name \o " and "
                               \o sorted_categories[o + 1].name \o " overlap"]
        ELSE [ok |-> TRUE, msg |-> ""]

----------------------------------------------------------------------------
(* utils/data_processor.py: the segmentation engines.  A dataset is a       *)
(* sequence of rows [P_code, Date, category_code, Actual, Class_abc]; an    *)
(* absent category_code or Class_abc column is a column of missing values   *)
(* (the engines treat the two alike).  Every row has a P_code.              *)

NA == "<NA>"                \* pd.NA in Class_abc

NoCategory == "<NaN>"       \* NaN in category_code

AllCategories == {"<None>"} \* target_categories = None

DefaultTier == "C"          \* the literal 'C' of the ratio engine

\* pd.to_numeric(...).fillna(0).clip(lower=0) on the base column
CleanBase(d) ==
    [i \in 1..Len(d) |->
        [d[i] EXCEPT !.Actual = IF IsNaN(@) \/ Lt(@, I(0)) THEN I(0) ELSE @]]

\* initialisation of the Class_abc column
InitClassAbc(d, target_categories, preserve_existing) ==
    [i \in 1..Len(d) |->
        IF target_categories = AllCategories /\ ~preserve_existing
        THEN [d[i] EXCEPT !.Class_abc = NA]
        ELSE d[i]]

\* df[base_column].sum() over the rows at the positions `rows`
RECURSIVE GroupSum(_, _)
GroupSum(d, rows) ==
    IF rows = {} THEN I(0)
    ELSE LET i == CHOOSE i \in rows : TRUE
         IN  Add(d[i].Actual, GroupSum(d, rows \ {i}))

Pos(seq, x) == CHOOSE k \in 1..Len(seq) : seq[k] = x

\* sort_values(base_column, ascending=False); the sort is not stable, `tie`
\* is the order it leaves items of equal total in
RECURSIVE SortDescending(_, _, _)
SortDescending(items, total, tie) ==
    IF items = {} THEN <<>>
    ELSE LET first == CHOOSE p \in items : \A q \in items \ {p} :
                          \/ Gt(total[p], total[q])
                          \/ Eq(total[p], total[q]) /\ Pos(tie, p) < Pos(tie, q)
         IN  <<first>> \o SortDescending(items \ {first}, total, tie)

RECURSIVE CumSum(_, _, _)
CumSum(order, total, k) ==
    IF k = 0 THEN I(0) ELSE Add(CumSum(order, total, k - 1), total[order[k]])

\* mutant: the tier intervals are open at their end, (start, end)
RECURSIVE Mut_RatioTier_OpenEnd(_, _, _)
Mut_RatioTier_OpenEnd(cumsum_ratio, sorted_categories, assigned) ==
    IF sorted_categories = <<>> THEN assigned
    ELSE LET category == Head(sorted_categories)
             mask == IF category.start_ratio = 0
                     THEN Lt(cumsum_ratio, Q(category.end_ratio, 100))
                     ELSE /\ Gt(cumsum_ratio, Q(category.start_ratio, 100))
                          /\ Lt(cumsum_ratio, Q(category.end_ratio, 100))
         IN  Mut_RatioTier_OpenEnd(cumsum_ratio, Tail(sorted_categories),
                                   IF mask THEN category.name ELSE assigned)

\* the loop over sorted_categories: a later tier whose mask holds overwrites
RECURSIVE RatioTier(_, _, _)
RatioTier(cumsum_ratio, sorted_categories, assigned) ==
    IF sorted_categories = <<>> THEN assigned
    ELSE LET category == Head(sorted_categories)
             mask == IF category.start_ratio = 0
                     THEN Le(cumsum_ratio, Q(category.end_ratio, 100))
                     ELSE /\ Gt(cumsum_ratio, Q(category.start_ratio, 100))
                          /\ Le(cumsum_ratio, Q(category.end_ratio, 100))
         IN  RatioTier(cumsum_ratio, Tail(sorted_categories),
                       IF mask THEN category.name ELSE assigned)

\* abc_mapping of one partition (the rows at the positions `part`)
RatioMapping(d, part, categories, tie) ==
    LET items == {d[i].P_code : i \in part}
        total == [p \in items |-> GroupSum(d, {i \in part : d[i].P_code = p})]
        order == SortDescending(items, total, tie)
        total_actual == GroupSum(d, part)
    IN  [p \in items |->
            IF Gt(total_actual, I(0))
            THEN RatioTier(Div(CumSum(order, total, Pos(order, p)), total_actual),
                           SortByStart(categories), DefaultTier)
            ELSE DefaultTier]

calculate_abc_classification(d, categories, target_categories, preserve_existing, tie) ==
    IF d = <<>> THEN d
    ELSE
    LET df_work == InitClassAbc(CleanBase(d), target_categories, preserve_existing)
        rows == 1..Len(d)
        present == {df_work[i].category_code : i \in rows} \ {NoCategory}
        categories_list == IF target_categories = AllCategories THEN present
                           ELSE present \cap target_categories
        abc == [c \in categories_list |->
                   RatioMapping(df_work, {i \in rows : df_work[i].category_code = c},
                                categories, tie)]
        whole == RatioMapping(df_work, rows, categories, tie)
        assigned ==
            [i \in rows |->
                IF present # {}
                THEN IF df_work[i].category_code \in categories_list
                     THEN [df_work[i] EXCEPT
                               !.Class_abc = abc[df_work[i].category_code][df_work[i].P_code]]
                     ELSE IF /\ df_work[i].category_code = NoCategory
                             /\ target_categories = AllCategories
                             /\ ~preserve_existing
                          THEN [df_work[i] EXCEPT !.Class_abc = DefaultTier]
                     ELSE df_work[i]
                ELSE [df_work[i] EXCEPT !.Class_abc = whole[df_work[i].P_code]]]
    IN  [i \in rows |->
            IF target_categories = AllCategories /\ assigned[i].Class_abc = NA
            THEN [assigned[i] EXCEPT !.Class_abc = Unclassified]
            ELSE assigned[i]]

\* product total over the number of distinct periods of the rows handed in
calculate_monthly_average_actual(d, part) ==
    LET df_work == [i \in 1..Len(d) |->
                       [d[i] EXCEPT !.Actual = IF IsNaN(@) THEN I(0) ELSE @]]
        items == {d[i].P_code : i \in part}
        month_count == IF part = {} THEN 1 ELSE Cardinality({d[i].Date : i \in part})
    IN  [p \in items |->
            Div(GroupSum(df_work, {i \in part : d[i].P_code = p}), I(month_count))]

\* the first tier of the list whose min_value the average reaches
RECURSIVE QuantityTier(_, _, _)
QuantityTier(monthly_avg_value, categories, k) ==
    IF k > Len(categories) THEN categories[Len(categories)].name
    ELSE IF Ge(monthly_avg_value, I(categories[k].min_value)) THEN categories[k].name
    ELSE QuantityTier(monthly_avg_value, categories, k + 1)

QuantityMapping(d, part, categories) ==
    LET monthly_averages == calculate_monthly_average_actual(d, part)
    IN  [p \in DOMAIN monthly_averages |-> QuantityTier(monthly_averages[p], categories, 1)]

calculate_abc_classification_by_quantity(d, categories, target_categories, preserve_existing) ==
    IF d = <<>> THEN d
    ELSE
    LET df_work == InitClassAbc(CleanBase(d), target_categories, preserve_existing)
        rows == 1..Len(d)
        present == {df_work[i].category_code : i \in rows} \ {NoCategory}
        categories_list == IF target_categories = AllCategories THEN present
                           ELSE present \cap target_categories
        abc == [c \in categories_list |->
                   QuantityMapping(df_work, {i \in rows : df_work[i].category_code = c},
                                   categories)]
        whole == QuantityMapping(df_work, rows, categories)
        assigned ==
            [i \in rows |->
                IF present # {}
                THEN IF df_work[i].category_code \in categories_list
                     THEN [df_work[i] EXCEPT
                               !.Class_abc = abc[df_work[i].category_code][df_work[i].P_code]]
                     ELSE IF /\ df_work[i].category_code = NoCategory
                             /\ target_categories = AllCategories
                             /\ ~preserve_existing
                          THEN [df_work[i] EXCEPT
                                    !.Class_abc = categories[Len(categories)].name]
                     ELSE df_work[i]
                ELSE [df_work[i] EXCEPT !.Class_abc = whole[df_work[i].P_code]]]
    IN  [i \in rows |->
            IF target_categories = AllCategories /\ assigned[i].Class_abc = NA
            THEN [assigned[i] EXCEPT !.Class_abc = Unclassified]
            ELSE assigned[i]]

\* sorted(categories, key=min_value, reverse=True): stable, descending
RECURSIVE InsertByMinDesc(_, _)
InsertByMinDesc(sorted, cat) ==
    IF sorted = <<>> THEN <<cat>>
    ELSE IF Head(sorted).min_value >= cat.min_value
         THEN <<Head(sorted)>> \o InsertByMinDesc(Tail(sorted), cat)
    ELSE <<cat>> \o sorted

RECURSIVE SortByMinDesc(_)
SortByMinDesc(categories) ==
    IF categories = <<>> THEN <<>>
    ELSE InsertByMinDesc(SortByMinDesc(SubSeq(categories, 1, Len(categories) - 1)),
                         categories[Len(categories)])

\* mutant: equal lower limits pass the order check (< for <=)
Mut_ValidateQuantity_EqualAllowed(categories) ==
    LET negative == {i \in 1..Len(categories) : categories[i].min_value < 0}
        b == IF negative = {} THEN 0
             ELSE CHOOSE i \in negative : \A j \in negative : i <= j
        sorted_categories == SortByMinDesc(categories)
        notabove == {i \in 1..(Len(categories) - 1) :
                        sorted_categories[i].min_value < sorted_categories[i + 1].min_value}
        o == IF notabove = {} THEN 0
             ELSE CHOOSE i \in notabove : \A j \in notabove : i <= j
    IN  IF categories = <<>> THEN [ok |-> FALSE, msg |-> "category list is empty"]
        ELSE IF Cardinality(Names(categories)) # Len(categories)
             THEN [ok |-> FALSE, msg |-> "duplicate category names"]
        ELSE IF b # 0
             THEN [ok |-> FALSE,
                   msg |-> "lower limit of category " \o categories[b].name \o " is negative"]
        ELSE IF o # 0
             THEN [ok |-> FALSE,
                   msg |-> "lower limit of " \o sorted_categories[o].name
                               \o " is not above that of " \o sorted_categories[o + 1].name]
        ELSE [ok |-> TRUE, msg |-> ""]

validate_abc_quantity_categories(categories) ==
    LET negative == {i \in 1..Len(categories) : categories[i].min_value < 0}
        b == IF negative = {} THEN 0
             ELSE CHOOSE i \in negative : \A j \in negative : i <= j
        sorted_categories == SortByMinDesc(categories)
        notabove == {i \in 1..(Len(categories) - 1) :
                        sorted_categories[i].min_value <= sorted_categories[i + 1].min_value}
        o == IF notabove = {} THEN 0
             ELSE CHOOSE i \in notabove : \A j \in notabove : i <= j
    IN  IF categories = <<>> THEN [ok |-> FALSE, msg |-> "category list is empty"]
        ELSE IF Cardinality(Names(categories)) # Len(categories)
             THEN [ok |-> FALSE, msg |-> "duplicate category names"]
        ELSE IF b # 0
             THEN [ok |-> FALSE,
                   msg |-> "lower limit of category " \o categories[b].name \o " is negative"]
        ELSE IF o # 0
             THEN [ok |-> FALSE,
                   msg |-> "lower limit of " \o sorted_categories[o].name
                               \o " is not above that of " \o sorted_categories[o + 1].name]
        ELSE [ok |-> TRUE, msg |-> ""]

\* int(x) of a finite float: truncation toward zero
Trunc(x) == IF x.n >= 0 THEN x.n \div x.d ELSE -((-x.n) \div x.d)

Max(a, b) == IF a >= b THEN a ELSE b

QuantityRanges(a_threshold, b_threshold) ==
    << [name |-> "A", min_value |-> a_threshold],
       [name |-> "B", min_value |-> b_threshold],
       [name |-> "C", min_value |-> 0] >>

\* the threshold at a cumulative-ratio boundary: the average of the last item
\* within the boundary, else the given fraction of the largest average
BoundaryThreshold(order, avg, total_actual, boundary, fraction) ==
    LET within == {k \in 1..Len(order) :
                      Le(Div(CumSum(order, avg, k), total_actual), boundary)}
        last == CHOOSE k \in within : \A j \in within : j <= k
    IN  IF within # {} THEN Max(1, Trunc(avg[order[last]]))
        ELSE Max(1, Trunc(Mul(avg[order[1]], fraction)))

calculate_default_quantity_ranges(d, tie) ==
    IF d = <<>> THEN QuantityRanges(1, 1)
    ELSE
    LET monthly_averages == calculate_monthly_average_actual(d, 1..Len(d))
        order == SortDescending(DOMAIN monthly_averages, monthly_averages, tie)
        total_actual == CumSum(order, monthly_averages, Len(order))
        a0 == BoundaryThreshold(order, monthly_averages, total_actual, Q(50, 100), Q(50, 100))
        b_threshold ==
              BoundaryThreshold(order, monthly_averages, total_actual, Q(80, 100), Q(20, 100))
    IN  IF \E p \in DOMAIN monthly_averages : ~IsNum(monthly_averages[p])
        THEN QuantityRanges(1, 1)
        ELSE IF IsZero(total_actual) THEN QuantityRanges(1, 1)
        ELSE QuantityRanges(IF a0 <= b_threshold THEN b_threshold + 1 ELSE a0, b_threshold)

----------------------------------------------------------------------------
(* pages/upload.py: the tier settings and the generate button.  One user    *)
(* interaction is one run of the page script from the top, followed by the  *)
(* run that st.rerun() starts.                                              *)

\* the quantity tiers of the session initialisation and of the reset button
fixed_quantity_categories == QuantityRanges(1000, 100)

\* config/settings.py ABC_CLASSIFICATION_SETTINGS['additional_categories']
AdditionalNames == {"D"}

\* the values entered into the editable end-% inputs
EndPercents == {50, 80, 90, 100}

\* the values entered into the editable lower-limit inputs
MinValues == {1, 100}

\* the end-% inputs of the tiers but the last; each has min_value = start% + 1
RatioWidgets(categories) ==
    {e \in [1..(Len(categories) - 1) -> EndPercents] :
        \A i \in 1..(Len(categories) - 1) : e[i] >= (IF i = 1 THEN 0 ELSE e[i - 1]) + 1}

\* edited_categories: first start 0, start = previous end, last end 100%
RatioEdited(categories, e) ==
    [i \in 1..Len(categories) |->
        [name |-> categories[i].name,
         start_ratio |-> IF i = 1 THEN 0 ELSE e[i - 1],
         end_ratio |-> IF i = Len(categories) THEN 100 ELSE e[i]]]

QuantityWidgets(categories) == [1..(Len(categories) - 1) -> MinValues]

\* edited_quantity_categories: the last lower limit is 0
QuantityEdited(categories, m) ==
    [i \in 1..Len(categories) |->
        [name |-> categories[i].name,
         min_value |-> IF i = Len(categories) THEN 0 ELSE m[i]]]

\* the edit section of one run: the edited list replaces the stored one when
\* its validator accepts it.  The outcomes <<abc_categories,
\* abc_quantity_categories>>, one for each way the inputs can be filled in.
EditSection(mode, categories, quantity_categories) ==
    IF mode = "ratio"
    THEN {<<IF validate_abc_categories(RatioEdited(categories, e)).ok
            THEN RatioEdited(categories, e) ELSE categories,
            quantity_categories>> : e \in RatioWidgets(categories)}
    ELSE {<<categories,
            IF validate_abc_quantity_categories(QuantityEdited(quantity_categories, m)).ok
            THEN QuantityEdited(quantity_categories, m) ELSE quantity_categories>> :
                m \in QuantityWidgets(quantity_categories)}

\* the tier the add button appends
NewCategory(mode, target_list, new_category_name) ==
    IF mode = "ratio"
    THEN LET ends == {target_list[i].end_ratio : i \in 1..Len(target_list)}
             last_end == IF ends = {} THEN 0 ELSE CHOOSE x \in ends : \A y \in ends : y <= x
         IN  [name |-> new_category_name, start_ratio |-> last_end,
              end_ratio |-> IF last_end + 10 < 100 THEN last_end + 10 ELSE 100]
    ELSE [name |-> new_category_name, min_value |-> 1]

\* list.pop(i)
Pop(list, i) == SubSeq(list, 1, i - 1) \o SubSeq(list, i + 1, Len(list))

AvailableCategories(d) == {d[i].category_code : i \in 1..Len(d)} \ {NoCategory}

\* mutant: the handler segments without validating the tiers
Mut_GenerateHandler_NoValidation(d, mode, categories, quantity_categories, selected, tie) ==
    LET target_categories == IF selected # {} THEN selected ELSE AllCategories
    IN  IF ~d.loaded THEN [segmented |-> FALSE, data |-> d]
        ELSE [segmented |-> TRUE,
              data |-> [d EXCEPT !.rows =
                  IF mode = "ratio"
                  THEN calculate_abc_classification(d.rows, categories,
                           target_categories, TRUE, tie)
                  ELSE calculate_abc_classification_by_quantity(d.rows,
                           quantity_categories, target_categories, TRUE)]]

\* the handler of the generate button
GenerateHandler(d, mode, categories, quantity_categories, selected, tie) ==
    LET is_valid == IF mode = "ratio"
                    THEN validate_abc_categories(categories).ok
                    ELSE validate_abc_quantity_categories(quantity_categories).ok
        target_categories == IF selected # {} THEN selected ELSE AllCategories
    IN  IF ~d.loaded THEN [segmented |-> FALSE, data |-> d]
        ELSE IF ~is_valid THEN [segmented |-> FALSE, data |-> d]
        ELSE [segmented |-> TRUE,
              data |-> [d EXCEPT !.rows =
                  IF mode = "ratio"
                  THEN calculate_abc_classification(d.rows, categories,
                           target_categories, TRUE, tie)
                  ELSE calculate_abc_classification_by_quantity(d.rows,
                           quantity_categories, target_categories, TRUE)]]

----------------------------------------------------------------------------
(* pages/matrix.py and pages/scatter.py: the reports by tier, for one       *)
(* comparison target.  A displayed average is a cell [text, sign, tenths]:  *)
(* text "%" is a percentage of `tenths` tenths of a percent behind `sign`,  *)
(* any other text is shown as it stands.                                    *)

Cell(text, sign, tenths) == [text |-> text, sign |-> sign, tenths |-> tenths]

\* the digits of a float formatted to one decimal: x in units of 1/scale,
\* rounded half to even
RoundHalfEven(x, scale) ==
    LET v == AbsInt(x.n) * scale
        q == v \div x.d
        r == v % x.d
    IN  IF 2 * r > x.d THEN q + 1
        ELSE IF 2 * r = x.d THEN q + (q % 2)
        ELSE q

\* f"{x:.1f}%" of a percentage x
FormatFixed(prefix, x) ==
    IF IsNaN(x) THEN Cell("nan%", prefix, 0)
    ELSE IF IsInf(x) THEN Cell("inf%", prefix, 0)
    ELSE Cell("%", prefix \o (IF x.n < 0 THEN "-" ELSE ""), RoundHalfEven(x, 10))

\* f"{x:.1%}" of a rate x
FormatPercent(prefix, x) == FormatFixed(prefix, Mul(x, I(100)))

\* matrix.py: "+" stands for the full-width plus, "^" for the triangle
format_weighted_average(weighted_avg, error_type) ==
    IF IsNaN(weighted_avg) THEN Cell("-", "", 0)
    ELSE LET percentage == Mul(weighted_avg, I(100))
         IN  IF error_type = "positive" THEN FormatFixed("+", percentage)
             ELSE IF error_type = "negative" THEN FormatFixed("^", Abs(percentage))
             ELSE FormatFixed("", percentage)

\* calculate_error_rates keeps the other columns of the dataset
ErrorData(d) ==
    LET e == calculate_error_rates(d)
    IN  [i \in 1..Len(d) |->
            [Actual |-> e[i].Actual,
             Plan |-> e[i].Plan,
             Class_abc |-> d[i].Class_abc,
             is_actual_zero |-> e[i].is_actual_zero,
             error_rate |-> e[i].error_rate,
             absolute_error_rate |-> e[i].absolute_error_rate,
             positive_error_rate |-> e[i].positive_error_rate,
             negative_error_rate |-> e[i].negative_error_rate]]

\* the label fillna writes for a record without a tier
Unsegmented == "<unsegmented>"

\* df[df['Class_abc'] == abc]
TierData(e, abc) ==
    LET in_tier(i) == e[i].Class_abc = abc
    IN  SelectIdx(e, in_tier, 1)

PositiveData(e) ==
    LET positive(i) == Gt(e[i].error_rate, I(0))
    IN  SelectIdx(e, positive, 1)

NegativeData(e) ==
    LET negative(i) == Lt(e[i].error_rate, I(0))
    IN  SelectIdx(e, negative, 1)

\* scatter.py: the statistics of every tier present in the dataset
calculate_abc_average_errors(d) ==
    LET with_errors == ErrorData(d)
        df_with_errors ==
            [i \in 1..Len(d) |->
                [with_errors[i] EXCEPT !.Class_abc = IF @ = NA THEN Unsegmented ELSE @]]
        unique_abc_classes == {df_with_errors[i].Class_abc : i \in 1..Len(d)}
    IN  [abc_class \in unique_abc_classes |->
            LET abc_data == TierData(df_with_errors, abc_class)
                positive_data == PositiveData(abc_data)
                negative_data == NegativeData(abc_data)
            IN  [count |-> Len(abc_data),
                 actual_sum |-> SumSeq([i \in 1..Len(abc_data) |-> abc_data[i].Actual]),
                 absolute_error_rate |->
                     calculate_weighted_average_error_rate(
                         abc_data, "absolute_error_rate", "Actual"),
                 positive_error_rate |->
                     IF positive_data # <<>>
                     THEN calculate_weighted_average_error_rate(
                              positive_data, "error_rate", "Actual")
                     ELSE I(0),
                 negative_error_rate |->
                     IF negative_data # <<>>
                     THEN calculate_weighted_average_error_rate(
                              negative_data, "error_rate", "Actual")
                     ELSE I(0)]]

\* total_weighted_sum and total_weight of the total row, over the tiers in `rest`
RECURSIVE TotalWeighted(_, _)
TotalWeighted(abc_stats, rest) ==
    IF rest = {} THEN [weighted_sum |-> I(0), weight |-> I(0)]
    ELSE LET abc_class == CHOOSE c \in rest : TRUE
             t == TotalWeighted(abc_stats, rest \ {abc_class})
             stats == abc_stats[abc_class]
         IN  [weighted_sum |->
                  Add(t.weighted_sum, Mul(stats.absolute_error_rate, stats.actual_sum)),
              weight |-> Add(t.weight, stats.actual_sum)]

\* the row of the table that totals the tiers
TotalRow(abc_stats, d) ==
    LET df_with_errors == ErrorData(d)
        positive_data == PositiveData(df_with_errors)
        negative_data == NegativeData(df_with_errors)
        t == TotalWeighted(abc_stats, DOMAIN abc_stats)
    IN  [absolute_error_rate |->
             IF Gt(t.weight, I(0))
             THEN FormatPercent("", Div(t.weighted_sum, t.weight))
             ELSE Cell("%", "", 0),
         negative_error_rate |->
             IF Len(negative_data) > 0
             THEN FormatPercent("", calculate_weighted_average_error_rate(
                                        negative_data, "error_rate", "Actual"))
             ELSE Cell("%", "", 0),
         positive_error_rate |->
             IF Len(positive_data) > 0
             THEN FormatPercent("+", calculate_weighted_average_error_rate(
                                         positive_data, "error_rate", "Actual"))
             ELSE Cell("%", "+", 0)]

\* scatter.py: the rows of the table, and nothing but a notice without tiers
display_abc_average_table(abc_errors, filtered_df) ==
    [notice |-> DOMAIN abc_errors = {},
     rows |->
        [abc_class \in DOMAIN abc_errors |->
            LET stats == abc_errors[abc_class]
            IN  [count |-> stats.count,
                 actual_sum |-> stats.actual_sum,
                 absolute_error_rate |-> FormatPercent("", stats.absolute_error_rate),
                 negative_error_rate |-> FormatPercent("", stats.negative_error_rate),
                 positive_error_rate |->
                     IF Ne(stats.positive_error_rate, I(0))
                     THEN FormatPercent("+", stats.positive_error_rate)
                     ELSE FormatPercent("", stats.positive_error_rate)]],
     total |->
        IF DOMAIN abc_errors # {} THEN TotalRow(abc_errors, filtered_df)
        ELSE [absolute_error_rate |-> Cell("", "", 0),
              negative_error_rate |-> Cell("", "", 0),
              positive_error_rate |-> Cell("", "", 0)]]

\* the heading of the column that counts every record
Overall == "<overall>"

\* matrix.py: the column of one comparison target under the overall heading
\* and under each tier heading
create_advanced_matrix(error_data, error_type, tier_headings) ==
    LET error_col == ErrorCol(error_type)
        error_category == categorize_error_rates(error_data, error_col, error_type)
        bands == ERROR_RATE_CATEGORIES(error_type)
        in_column(i, column) == column = Overall \/ error_data[i].Class_abc = column
        rows_of(column) == {i \in 1..Len(error_data) : in_column(i, column)}
    IN  [column \in {Overall} \cup tier_headings |->
            LET abc_data ==
                    IF column = Overall THEN error_data ELSE TierData(error_data, column)
            IN  [counts |->
                     [b \in 1..Len(bands) |->
                         Cardinality({i \in rows_of(column) :
                                         error_category[i] = bands[b].label})],
                 total |->
                     IF error_type = "absolute" THEN Cardinality(rows_of(column))
                     ELSE Cardinality({i \in rows_of(column) :
                                          ~IsNaN(error_data[i][error_col])}),
                 weighted_avg |->
                     format_weighted_average(
                         calculate_weighted_average_error_rate(abc_data, error_col, "Actual"),
                         error_type)]]

\* matrix.py: the tier headings are the labels present in the dataset; without
\* any, create_basic_matrix builds the overall column alone
display_comprehensive_error_rate_matrix(d, error_type) ==
    LET tier_headings == {d[i].Class_abc : i \in 1..Len(d)} \ {NA}
        error_data == ErrorData(d)
    IN  IF tier_headings # {}
        THEN create_advanced_matrix(error_data, error_type, tier_headings)
        ELSE LET m == create_basic_matrix(error_data, error_type)
             IN  [column \in {Overall} |->
                     [counts |-> m.counts,
                      total |-> m.total,
                      weighted_avg |-> format_weighted_average(m.weighted_avg, error_type)]]

----------------------------------------------------------------------------
(* utils/data_processor.py get_abc_classification_summary and the tier       *)
(* summary table of pages/upload.py.  Percentages are held in hundredths of  *)
(* a percent, as the table shows them.                                        *)

\* round(2) of a percentage, in hundredths
Round2(x) == IF x.n < 0 THEN -RoundHalfEven(x, 100) ELSE RoundHalfEven(x, 100)

\* sorted() of the tier labels of the model
SortedLabels == <<"A", "B", "C", "D", "Z", Unsegmented>>

get_abc_classification_summary(d) ==
    LET df_work ==
            [i \in 1..Len(d) |->
                [d[i] EXCEPT !.Actual = IF IsNaN(@) THEN I(0) ELSE @,
                             !.Class_abc = IF @ = NA THEN Unsegmented ELSE @]]
        items == {d[i].P_code : i \in 1..Len(d)}
        first(p) == CHOOSE i \in 1..Len(d) :
                        /\ d[i].P_code = p
                        /\ \A j \in 1..Len(d) : d[j].P_code = p => i <= j
        label == [p \in items |-> df_work[first(p)].Class_abc]
        labels == {label[p] : p \in items}
        abc_totals ==
            [l \in labels |->
                GroupSum(df_work, {i \in 1..Len(d) : label[d[i].P_code] = l})]
        total_actual == GroupSum(df_work, 1..Len(d))
    IN  [empty |-> d = <<>>,
         counts |-> [l \in labels |-> Cardinality({p \in items : label[p] = l})],
         actual_sums |-> abc_totals,
         ratios |->
             [l \in (IF Gt(total_actual, I(0)) THEN labels ELSE {}) |->
                 Round2(Mul(Div(abc_totals[l], total_actual), I(100)))],
         total_actual |-> total_actual]

\* max(sorted_categories, key=ratio): the first of the largest
MaxCategory(categories, ratio) ==
    CHOOSE c \in categories :
        \A o \in categories :
            \/ ratio[o] < ratio[c]
            \/ ratio[o] = ratio[c] /\ Pos(SortedLabels, c) <= Pos(SortedLabels, o)

\* whether abs(current_total_ratio - 100.0) > 0.01 holds: the sum is a float, so
\* at a distance of one hundredth the comparison goes either way
AdjustmentTaken(current_total_ratio) ==
    LET distance == AbsInt(current_total_ratio - 10000)
    IN  IF distance > 1 THEN {TRUE} ELSE IF distance = 1 THEN {TRUE, FALSE} ELSE {FALSE}

\* upload.py: the tables the page can show for a summary
TierSummaryTables(abc_summary) ==
    LET sorted_categories == DOMAIN abc_summary.counts
        ratio == [c \in sorted_categories |->
                     IF c \in DOMAIN abc_summary.ratios THEN abc_summary.ratios[c] ELSE 0]
        total_actual == abc_summary.total_actual
        current_total_ratio ==
            SumOver(DOMAIN abc_summary.ratios, abc_summary.ratios)
        adjustment == 10000 - current_total_ratio
        taken == IF sorted_categories # {} /\ Gt(total_actual, I(0))
                 THEN AdjustmentTaken(current_total_ratio)
                 ELSE {FALSE}
    IN  {[rows |->
             [c \in sorted_categories |->
                 [count |-> abc_summary.counts[c],
                  actual_sum |-> Trunc(abc_summary.actual_sums[c]),
                  ratio |-> IF adjust /\ c = MaxCategory(sorted_categories, ratio)
                            THEN ratio[c] + adjustment
                            ELSE ratio[c]]],
          total |->
             [count |-> SumOver(sorted_categories, abc_summary.counts),
              actual_sum |-> Trunc(total_actual),
              ratio |-> 10000]] : adjust \in taken}

----------------------------------------------------------------------------
(* The error pipeline of the matrix page: a dataset is loaded, the error    *)
(* rates of its comparison column are attached, and the matrix column is    *)
(* built for each error type the user selects.                              *)

MaxRecs == 2

\* rows of the datasets of up to MaxRecs records
ErrActuals == {NaN, I(-10), I(0), I(10)}

ErrPlans == {NaN, I(-1), I(0), I(10), I(12)}

ErrRows == [Actual : ErrActuals, Plan : ErrPlans]

\* rows of the one-record datasets: rates on and between the band boundaries
ProbeActuals == {NaN, I(-10), I(0), I(10), I(20)}

ProbePlans ==
    {NaN, I(-1), I(0), I(5), I(9), I(10), I(11), I(12), I(13), I(15), I(20), I(25)}

ProbeRows == [Actual : ProbeActuals, Plan : ProbePlans]

\* three periods of one item (scenario A of the specification)
ScenarioA ==
    << [Actual |-> I(10), Plan |-> I(8)],
       [Actual |-> I(15), Plan |-> I(12)],
       [Actual |-> I(20), Plan |-> I(18)] >>

ErrDatasets ==
    UNION {[1..n -> ErrRows] : n \in 0..MaxRecs}
        \cup {<<r>> : r \in ProbeRows}
        \cup {ScenarioA}

None == "none"

NoResult == [ok |-> FALSE, msg |-> None]

ErrIdle ==
    /\ epc = "idle"
    /\ df = <<>>
    /\ edf = <<>>
    /\ etype = None
    /\ ecat = <<>>
    /\ matrix = [t \in ErrorTypes |->
                    [shown |-> FALSE, counts |-> <<>>, total |-> 0, weighted_avg |-> NaN]]

ValIdle ==
    /\ vpc = "idle"
    /\ vcfg = <<>>
    /\ vres = NoResult

NoArgs ==
    [mode |-> None, categories |-> <<>>, base_column |-> None,
     target_categories |-> {}, preserve_existing |-> FALSE]

SegIdle ==
    /\ spc = "idle"
    /\ sdf = <<>>
    /\ sargs = NoArgs
    /\ sout = <<>>

NoData == [loaded |-> FALSE, rows |-> <<>>]

NoLog ==
    [pressed |-> FALSE, mode |-> None, categories |-> <<>>, target_categories |-> {},
     segmented |-> FALSE, before |-> NoData, after |-> NoData]

UiIdle ==
    /\ original_data = <<>>
    /\ data = NoData
    /\ mapping_completed = FALSE
    /\ abc_categories = <<>>
    /\ abc_quantity_categories = <<>>
    /\ abc_setting_mode = None
    /\ runs = 0
    /\ glog = NoLog

NoTable == [shown |-> FALSE, table |-> <<>>]

NoTierMatrix == [shown |-> FALSE, error_type |-> None, columns |-> <<>>]

RepIdle ==
    /\ rpc = "idle"
    /\ rdf = <<>>
    /\ rtab = NoTable
    /\ rmat = NoTierMatrix

SumIdle ==
    /\ mpc = "idle"
    /\ mdf = <<>>
    /\ mtab = <<>>

NoFrame == [columns |-> {}, rows |-> <<>>]

NoSelection == [category |-> None, date |-> None, evaluation |-> None]

NoOutput == [aggregated |-> FALSE, rows |-> <<>>, groups |-> {}]

FilIdle ==
    /\ fpc = "idle"
    /\ fdf = NoFrame
    /\ fsel = NoSelection
    /\ fout = NoOutput

NoMatrix ==
    [t \in ErrorTypes |-> [shown |-> FALSE, counts |-> <<>>, total |-> 0, weighted_avg |-> NaN]]

ErrInit ==
    /\ epc = "loaded"
    /\ df \in ErrDatasets
    /\ edf = <<>>
    /\ etype = None
    /\ ecat = <<>>
    /\ matrix = NoMatrix
    /\ ValIdle
    /\ SegIdle
    /\ UiIdle
    /\ RepIdle
    /\ SumIdle
    /\ FilIdle

CalculateErrorRates ==
    /\ epc = "loaded"
    /\ edf' = calculate_error_rates(df)
    /\ epc' = "rates"
    /\ UNCHANGED <<df, etype, ecat, matrix, exceptErr>>

CreateBasicMatrix(error_type) ==
    /\ epc \in {"rates", "matrix"}
    /\ ~matrix[error_type].shown
    /\ LET m == create_basic_matrix(edf, error_type)
       IN  /\ ecat' = m.error_category
           /\ matrix' = [matrix EXCEPT ![error_type] =
                            [shown |-> TRUE, counts |-> m.counts, total |-> m.total,
                             weighted_avg |-> m.weighted_avg]]
    /\ etype' = error_type
    /\ epc' = "matrix"
    /\ UNCHANGED <<df, edf, exceptErr>>

ErrNext ==
    \/ CalculateErrorRates
    \/ \E error_type \in ErrorTypes : CreateBasicMatrix(error_type)

SpecErr == ErrInit /\ [][ErrNext]_vars

----------------------------------------------------------------------------
(* The validator applied to a tier list *)

MaxTiers == 2

TierNames == {"A", "B"}

StartGrid == {-10, 0, 50, 80}

EndGrid == {0, 50, 80, 100, 110}

Tiers == [name : TierNames, start_ratio : StartGrid, end_ratio : EndGrid]

TierLists == UNION {[1..n -> Tiers] : n \in 0..MaxTiers} \cup {default_categories}

MinGrid == {-1, 0, 1, 100}

QuantityTiers == [name : TierNames, min_value : MinGrid]

QuantityTierLists ==
    UNION {[1..n -> QuantityTiers] : n \in 0..MaxTiers} \cup {fixed_quantity_categories}

ValInit ==
    /\ \/ vpc = "input" /\ vcfg \in TierLists
       \/ vpc = "quantity input" /\ vcfg \in QuantityTierLists
    /\ vres = NoResult
    /\ ErrIdle
    /\ SegIdle
    /\ UiIdle
    /\ RepIdle
    /\ SumIdle
    /\ FilIdle

Validate ==
    /\ vpc = "input"
    /\ vres' = validate_abc_categories(vcfg)
    /\ vpc' = "validated"
    /\ UNCHANGED <<vcfg, exceptVal>>

ValidateQuantity ==
    /\ vpc = "quantity input"
    /\ vres' = validate_abc_quantity_categories(vcfg)
    /\ vpc' = "quantity validated"
    /\ UNCHANGED <<vcfg, exceptVal>>

ValNext == Validate \/ ValidateQuantity

SpecVal == ValInit /\ [][ValNext]_vars

----------------------------------------------------------------------------
(* One call of a segmentation engine *)

MaxRows == 2

SegRows ==
    [P_code : {1, 2}, Date : {1}, category_code : {"c1", NoCategory},
     Actual : {I(0), I(10)}, Class_abc : {NA, "Z"}]

SegProbeRows ==
    [P_code : {1, 2}, Date : {1, 2}, category_code : {"c1", "c2", NoCategory},
     Actual : {NaN, I(-5), I(0), I(10), I(30), I(90)}, Class_abc : {NA, "Z"}]

Row(p, t, c, a, l) ==
    [P_code |-> p, Date |-> t, category_code |-> c, Actual |-> I(a), Class_abc |-> l]

SegScenarios ==
    { << Row(1, 1, "c1", 90, NA), Row(2, 1, "c1", 10, NA) >>,
      << Row(1, 1, "c1", 50, NA), Row(2, 1, "c1", 30, NA), Row(3, 1, "c1", 20, NA) >>,
      << Row(1, 1, "c1", 30, "Z"), Row(1, 2, "c1", 30, "Z"), Row(2, 2, "c1", 20, "Z") >>,
      << Row(1, 1, "c1", 30, NA), Row(1, 2, "c2", 10, "Z"), Row(2, 1, "c2", 90, "Z") >>,
      << Row(1, 1, "c1", 10, "Z"), Row(2, 1, "c2", 0, "Z"), Row(3, 2, NoCategory, 30, "Z") >> }

SegDatasets ==
    UNION {[1..n -> SegRows] : n \in 0..MaxRows}
        \cup {<<r>> : r \in SegProbeRows} \cup SegScenarios

SegRatioConfigs ==
    { default_categories,
      << [name |-> "A", start_ratio |-> 0, end_ratio |-> 50],
         [name |-> "B", start_ratio |-> 50, end_ratio |-> 100] >>,
      << [name |-> "A", start_ratio |-> 0, end_ratio |-> 50] >>,
      << [name |-> "C", start_ratio |-> 0, end_ratio |-> 50],
         [name |-> "B", start_ratio |-> 50, end_ratio |-> 80] >> }

SegQuantityConfigs ==
    { << [name |-> "A", min_value |-> 20], [name |-> "B", min_value |-> 10],
         [name |-> "C", min_value |-> 0] >>,
      << [name |-> "A", min_value |-> 10], [name |-> "B", min_value |-> 0] >>,
      << [name |-> "B", min_value |-> 0], [name |-> "A", min_value |-> 10] >> }

SegArgs ==
    [mode : {"ratio"}, categories : SegRatioConfigs, base_column : {"Actual"},
     target_categories : {AllCategories, {"c1"}}, preserve_existing : BOOLEAN]
    \cup
    [mode : {"quantity"}, categories : SegQuantityConfigs, base_column : {"Actual"},
     target_categories : {AllCategories, {"c1"}}, preserve_existing : BOOLEAN]

\* calls that name a base column the dataset does not have
SegArgsNoBase == {[a EXCEPT !.base_column = "Sales"] : a \in SegArgs}

\* df.columns of the datasets of the model
Columns == {"P_code", "Date", "category_code", "Actual", "Class_abc"}

\* the orders of the items of d
TieOrders(d) ==
    LET items == {d[i].P_code : i \in 1..Len(d)}
        n == Cardinality(items)
    IN  {o \in [1..n -> items] : \A i, j \in 1..n : i # j => o[i] # o[j]}

\* calls of the quantity engine with the tiers derived from the dataset itself
SegArgsDataDefault(d) ==
    {[mode |-> "quantity", categories |-> calculate_default_quantity_ranges(d, tie),
      base_column |-> "Actual", target_categories |-> AllCategories,
      preserve_existing |-> FALSE] : tie \in TieOrders(d)}

SegInit ==
    /\ spc = "input"
    /\ \/ sdf \in SegDatasets /\ sargs \in SegArgs
       \/ sdf \in SegScenarios \cup {<<>>} /\ sargs \in SegArgsNoBase
       \/ sdf \in SegDatasets /\ sargs \in SegArgsDataDefault(sdf)
    /\ sout = <<>>
    /\ ErrIdle
    /\ ValIdle
    /\ UiIdle
    /\ RepIdle
    /\ SumIdle
    /\ FilIdle

SegmentByRatio ==
    /\ spc = "input"
    /\ sargs.mode = "ratio"
    /\ IF sdf # <<>> /\ sargs.base_column \notin Columns
       THEN sout' = <<>> /\ spc' = "raised"
       ELSE /\ \E tie \in TieOrders(sdf) :
                   sout' = calculate_abc_classification(sdf, sargs.categories,
                               sargs.target_categories, sargs.preserve_existing, tie)
            /\ spc' = "done"
    /\ UNCHANGED <<sdf, sargs, exceptSeg>>

SegmentByQuantity ==
    /\ spc = "input"
    /\ sargs.mode = "quantity"
    /\ IF sdf # <<>> /\ sargs.base_column \notin Columns
       THEN sout' = <<>> /\ spc' = "raised"
       ELSE /\ sout' = calculate_abc_classification_by_quantity(sdf, sargs.categories,
                           sargs.target_categories, sargs.preserve_existing)
            /\ spc' = "done"
    /\ UNCHANGED <<sdf, sargs, exceptSeg>>

SegNext == SegmentByRatio \/ SegmentByQuantity

SpecSeg == SegInit /\ [][SegNext]_vars

----------------------------------------------------------------------------
(* The dataset-creation page *)

MaxRuns == 3

UiDatasets ==
    { << Row(1, 1, "c1", 30, NA), Row(2, 1, "c1", 10, NA), Row(2, 1, "c2", 0, "Z") >>,
      << Row(1, 1, NoCategory, 30, NA), Row(2, 1, NoCategory, 10, NA) >>,
      << Row(1, 1, NoCategory, 0, NA) >> }

UiInit ==
    /\ original_data \in UiDatasets
    /\ data = NoData
    /\ mapping_completed = FALSE
    /\ abc_categories = default_categories
    /\ abc_quantity_categories = fixed_quantity_categories
    /\ abc_setting_mode = "ratio"
    /\ runs = 0
    /\ glog = NoLog
    /\ ErrIdle
    /\ ValIdle
    /\ SegIdle
    /\ RepIdle
    /\ SumIdle
    /\ FilIdle

\* a run that ends with the edit section leaving the lists as r
Stores(r) ==
    /\ abc_categories' = r[1]
    /\ abc_quantity_categories' = r[2]

Counted ==
    /\ runs < MaxRuns
    /\ runs' = runs + 1

\* the user changes an input, no button pressed
EditTiers ==
    /\ Counted
    /\ \E r \in EditSection(abc_setting_mode, abc_categories, abc_quantity_categories) :
           Stores(r)
    /\ glog' = NoLog
    /\ UNCHANGED <<original_data, data, mapping_completed, abc_setting_mode, exceptUi>>

\* the user picks the other setting mode
SwitchMode ==
    /\ Counted
    /\ abc_setting_mode' = IF abc_setting_mode = "ratio" THEN "quantity" ELSE "ratio"
    /\ \E r \in EditSection(abc_setting_mode', abc_categories, abc_quantity_categories) :
           Stores(r)
    /\ glog' = NoLog
    /\ UNCHANGED <<original_data, data, mapping_completed, exceptUi>>

\* the add button: append to the list of the mode and rerun
AddTier(new_category_name) ==
    /\ Counted
    /\ LET target_list == IF abc_setting_mode = "ratio" THEN abc_categories
                          ELSE abc_quantity_categories
           added == IF new_category_name \in Names(target_list) THEN target_list
                    ELSE Append(target_list,
                             NewCategory(abc_setting_mode, target_list, new_category_name))
       IN  \E r \in EditSection(abc_setting_mode,
                        IF abc_setting_mode = "ratio" THEN added ELSE abc_categories,
                        IF abc_setting_mode = "ratio" THEN abc_quantity_categories
                        ELSE added) :
               Stores(r)
    /\ glog' = NoLog
    /\ UNCHANGED <<original_data, data, mapping_completed, abc_setting_mode, exceptUi>>

\* a delete button: pop from the list of the mode and rerun
DeleteTier(i) ==
    /\ Counted
    /\ LET target_list == IF abc_setting_mode = "ratio" THEN abc_categories
                          ELSE abc_quantity_categories
       IN  /\ Len(target_list) > 1
           /\ i \in 1..Len(target_list)
           /\ \E r \in EditSection(abc_setting_mode,
                        IF abc_setting_mode = "ratio" THEN Pop(target_list, i)
                        ELSE abc_categories,
                        IF abc_setting_mode = "ratio" THEN abc_quantity_categories
                        ELSE Pop(target_list, i)) :
                  Stores(r)
    /\ glog' = NoLog
    /\ UNCHANGED <<original_data, data, mapping_completed, abc_setting_mode, exceptUi>>

\* the reset-to-default button of the ratio mode
ResetDefault ==
    /\ Counted
    /\ abc_setting_mode = "ratio"
    /\ \E r \in EditSection("ratio", default_categories, abc_quantity_categories) :
           Stores(r)
    /\ glog' = NoLog
    /\ UNCHANGED <<original_data, data, mapping_completed, abc_setting_mode, exceptUi>>

\* the data-derived default button of the quantity mode
CalcDefaultQuantity ==
    /\ Counted
    /\ abc_setting_mode = "quantity"
    /\ \E tie \in TieOrders(original_data) :
           \E r \in EditSection("quantity", abc_categories,
                        calculate_default_quantity_ranges(original_data, tie)) :
               Stores(r)
    /\ glog' = NoLog
    /\ UNCHANGED <<original_data, data, mapping_completed, abc_setting_mode, exceptUi>>

\* the fixed-default button of the quantity mode
ResetQuantity ==
    /\ Counted
    /\ abc_setting_mode = "quantity"
    /\ \E r \in EditSection("quantity", abc_categories, fixed_quantity_categories) :
           Stores(r)
    /\ glog' = NoLog
    /\ UNCHANGED <<original_data, data, mapping_completed, abc_setting_mode, exceptUi>>

\* the apply-mapping button
ApplyMapping ==
    /\ Counted
    /\ \E r \in EditSection(abc_setting_mode, abc_categories, abc_quantity_categories) :
           Stores(r)
    /\ data' = [loaded |-> TRUE, rows |-> original_data]
    /\ mapping_completed' = TRUE
    /\ glog' = NoLog
    /\ UNCHANGED <<original_data, abc_setting_mode, exceptUi>>

\* the generate button: the edit section of the run, then the handler
Generate ==
    /\ Counted
    /\ mapping_completed
    /\ \E r \in EditSection(abc_setting_mode, abc_categories, abc_quantity_categories) :
       \E selected \in {S \in SUBSET AvailableCategories(original_data) : Cardinality(S) <= 1} :
       \E tie \in TieOrders(data.rows) :
           LET h == GenerateHandler(data, abc_setting_mode, r[1], r[2], selected, tie)
           IN  /\ Stores(r)
               /\ data' = h.data
               /\ glog' = [pressed |-> TRUE, mode |-> abc_setting_mode,
                           categories |-> IF abc_setting_mode = "ratio" THEN r[1] ELSE r[2],
                           target_categories |-> selected,
                           segmented |-> h.segmented, before |-> data, after |-> h.data]
    /\ UNCHANGED <<original_data, mapping_completed, abc_setting_mode, exceptUi>>

UiNext ==
    \/ EditTiers
    \/ SwitchMode
    \/ \E new_category_name \in AdditionalNames : AddTier(new_category_name)
    \/ \E i \in 1..Len(abc_categories) \cup 1..Len(abc_quantity_categories) : DeleteTier(i)
    \/ ResetDefault
    \/ CalcDefaultQuantity
    \/ ResetQuantity
    \/ ApplyMapping
    \/ Generate

SpecUi == UiInit /\ [][UiNext]_vars

----------------------------------------------------------------------------
(* The reports by tier: a segmented dataset is loaded, the scatter page     *)
(* shows the tier average table and the matrix page the band x tier matrix  *)
(* of the error type the user selects.                                      *)

MaxReportRecs == 2

\* a record with a negative, a zero and a positive error, and one with a zero
\* actual; a record has tier A or B, or none after a partial segmentation
ReportRows ==
    {[Actual |-> I(10), Plan |-> I(5), Class_abc |-> c] : c \in {"A", "B", NA}}
        \cup {[Actual |-> I(10), Plan |-> I(10), Class_abc |-> c] : c \in {"A", "B", NA}}
        \cup {[Actual |-> I(10), Plan |-> I(20), Class_abc |-> c] : c \in {"A", "B", NA}}
        \cup {[Actual |-> I(0), Plan |-> I(5), Class_abc |-> c] : c \in {"A", "B", NA}}

\* both pages stop with a warning when no record passes the filters
ReportDatasets == UNION {[1..n -> ReportRows] : n \in 1..MaxReportRecs}

RepInit ==
    /\ rpc = "loaded"
    /\ rdf \in ReportDatasets
    /\ rtab = NoTable
    /\ rmat = NoTierMatrix
    /\ ErrIdle
    /\ ValIdle
    /\ SegIdle
    /\ UiIdle
    /\ SumIdle
    /\ FilIdle

ShowTierAverageTable ==
    /\ rpc \in {"loaded", "shown"}
    /\ rdf # <<>>
    /\ ~rtab.shown
    /\ rtab' = [shown |-> TRUE,
                table |-> display_abc_average_table(calculate_abc_average_errors(rdf), rdf)]
    /\ rpc' = "shown"
    /\ UNCHANGED <<rdf, rmat, exceptRep>>

ShowTierMatrix(error_type) ==
    /\ rpc \in {"loaded", "shown"}
    /\ rdf # <<>>
    /\ rmat.error_type # error_type
    /\ rmat' = [shown |-> TRUE,
                error_type |-> error_type,
                columns |-> display_comprehensive_error_rate_matrix(rdf, error_type)]
    /\ rpc' = "shown"
    /\ UNCHANGED <<rdf, rtab, exceptRep>>

RepNext ==
    \/ ShowTierAverageTable
    \/ \E error_type \in ErrorTypes : ShowTierMatrix(error_type)

SpecRep == RepInit /\ [][RepNext]_vars

----------------------------------------------------------------------------
(* The tier summary of the dataset-creation page: the table shown under the  *)
(* segmented dataset.                                                         *)

MaxItems == 3

\* one record for each item, in one of two tiers
SummaryDatasets ==
    UNION {{[i \in 1..n |-> Row(i, 1, "c1", a[i], l[i])] :
               a \in [1..n -> {0, 1, 2}], l \in [1..n -> {"A", "B"}]} :
           n \in 1..MaxItems}

\* three tiers whose rounded percentages (15.43, 80.06, 4.50) leave a residual
\* of one hundredth, six tiers (16.67 each) that leave two hundredths, and an
\* item of two records
SummaryScenarios ==
    { << Row(1, 1, "c1", 48, "A"), Row(2, 1, "c1", 249, "B"), Row(3, 1, "c1", 14, "C") >>,
      << Row(1, 1, "c1", 1, "A"), Row(2, 1, "c1", 1, "B"), Row(3, 1, "c1", 1, "C"),
         Row(4, 1, "c1", 1, "D"), Row(5, 1, "c1", 1, "Z"), Row(6, 1, "c1", 1, NA) >>,
      << Row(1, 1, "c1", 1, "A"), Row(1, 2, "c1", 1, "A"), Row(2, 1, "c1", 1, "B"),
         Row(3, 2, "c1", 3, NA) >> }

SumInit ==
    /\ mpc = "loaded"
    /\ mdf \in SummaryDatasets \cup SummaryScenarios
    /\ mtab = <<>>
    /\ ErrIdle
    /\ ValIdle
    /\ SegIdle
    /\ UiIdle
    /\ RepIdle
    /\ FilIdle

ShowTierSummary ==
    /\ mpc = "loaded"
    /\ ~get_abc_classification_summary(mdf).empty
    /\ mtab' \in TierSummaryTables(get_abc_classification_summary(mdf))
    /\ mpc' = "shown"
    /\ UNCHANGED <<mdf, exceptSum>>

SumNext == ShowTierSummary

SpecSum == SumInit /\ [][SumNext]_vars

----------------------------------------------------------------------------
(* utils/common_helpers.py: the period options, the period filter and the  *)
(* aggregation for cumulative evaluation; pages/matrix.py apply_filters.   *)
(* A frame is [columns, rows]: columns holds which of the optional columns *)
(* category_code and Class_abc the mapping produced, a row is [P_code,     *)
(* Date, category_code, Class_abc, Actual, AI_pred, Plan_01] with Date the *)
(* integer YYYYMM; a column that is absent reads as a missing value.       *)

\* the entries of the period select box: '全期間'; '前半Nか月間（a～b）' and
\* '後半Nか月間（a～b）' with months = N, first = a, last = b; one month
AllPeriods == [kind |-> "all", months |-> 0, first |-> 0, last |-> 0]

HalfOption(kind, dates) ==
    [kind |-> kind, months |-> Len(dates), first |-> dates[1], last |-> dates[Len(dates)]]

MonthOption(date) == [kind |-> "month", months |-> 1, first |-> date, last |-> date]

\* sorted(...unique().tolist())
RECURSIVE SortAscending(_)
SortAscending(S) ==
    IF S = {} THEN <<>>
    ELSE LET m == CHOOSE x \in S : \A y \in S : x <= y
         IN  <<m>> \o SortAscending(S \ {m})

AvailableDates(rows) == SortAscending({rows[i].Date : i \in 1..Len(rows)})

is_consecutive_dates(dates) ==
    LET numeric_dates == [i \in 1..Len(dates) |-> (dates[i] \div 100) * 12 + (dates[i] % 100)]
    IN  \/ Len(dates) <= 1
        \/ \A i \in 2..Len(dates) : numeric_dates[i] = numeric_dates[i - 1] + 1

get_enhanced_date_options(d) ==
    LET available_dates == AvailableDates(d.rows)
        date_count == Len(available_dates)
        halves ==
            IF ~is_consecutive_dates(available_dates) THEN <<>>
            ELSE IF date_count >= 6
                 THEN << HalfOption("first half", SubSeq(available_dates, 1, 3)),
                         HalfOption("second half",
                                    SubSeq(available_dates, date_count - 2, date_count)) >>
            ELSE IF date_count = 5
                 THEN << HalfOption("first half", SubSeq(available_dates, 1, 3)),
                         HalfOption("second half", SubSeq(available_dates, 3, 5)) >>
            ELSE IF date_count = 4
                 THEN << HalfOption("first half", SubSeq(available_dates, 1, 3)),
                         HalfOption("second half", SubSeq(available_dates, 2, 4)) >>
            ELSE IF date_count = 3
                 THEN << HalfOption("first half", SubSeq(available_dates, 1, 2)),
                         HalfOption("second half", SubSeq(available_dates, 2, 3)) >>
            ELSE <<>>
    IN  IF date_count = 0 THEN <<AllPeriods>>
        ELSE <<AllPeriods>> \o halves
                 \o [i \in 1..date_count |-> MonthOption(available_dates[i])]

InDates(dates, date) == \E i \in 1..Len(dates) : dates[i] = date

\* df[df[date_column].isin(target_dates)]
RowsInDates(rows, target_dates) ==
    SelectIdx(rows, LAMBDA i : InDates(target_dates, rows[i].Date), 1)

\* the months are taken from the frame handed in, not from the option
parse_date_filter_selection(selected_date, rows) ==
    LET available_dates == AvailableDates(rows)
        date_count == Len(available_dates)
        is_consecutive == is_consecutive_dates(available_dates)
    IN  IF selected_date.kind = "all" THEN rows
        ELSE IF date_count = 0 THEN rows
        ELSE IF selected_date.kind = "first half"
        THEN RowsInDates(rows,
                 IF ~is_consecutive THEN available_dates
                 ELSE IF date_count >= 4 THEN SubSeq(available_dates, 1, 3)
                 ELSE IF date_count = 3 THEN SubSeq(available_dates, 1, 2)
                 ELSE available_dates)
        ELSE IF selected_date.kind = "second half"
        THEN RowsInDates(rows,
                 IF ~is_consecutive THEN available_dates
                 ELSE IF date_count >= 6
                      THEN SubSeq(available_dates, date_count - 2, date_count)
                 ELSE IF date_count = 5 THEN SubSeq(available_dates, 3, 5)
                 ELSE IF date_count = 4 THEN SubSeq(available_dates, 2, 4)
                 ELSE IF date_count = 3 THEN SubSeq(available_dates, 2, 3)
                 ELSE available_dates)
        ELSE IF InDates(available_dates, selected_date.first)
        THEN RowsInDates(rows, <<selected_date.first>>)
        ELSE rows

is_single_month_selection(selected_date, d) ==
    /\ selected_date.kind = "month"
    /\ InDates(AvailableDates(d.rows), selected_date.first)

SingleMonth == "single month"       \* 単月データ評価

Cumulative == "cumulative"          \* 累積データ評価（選択期間で集計）

get_evaluation_method_options == {SingleMonth, Cumulative}

\* a row whose group key holds a missing value belongs to no group
\* (DataFrame.groupby, dropna=True)
GroupKey(columns, r) ==
    [P_code |-> r.P_code,
     category_code |-> IF "category_code" \in columns THEN r.category_code ELSE NoCategory,
     Class_abc |-> IF "Class_abc" \in columns THEN r.Class_abc ELSE NA]

Grouped(columns, r) ==
    /\ "category_code" \in columns => r.category_code # NoCategory
    /\ "Class_abc" \in columns => r.Class_abc # NA

ColumnOf(rows, col) == [i \in 1..Len(rows) |-> rows[i][col]]

\* the frame returned: aggregated with one row for each group (a set, the
\* order of the groups is left out), or the filtered rows as they are
aggregate_data_for_cumulative_evaluation(d, selected_date) ==
    LET filtered_df == parse_date_filter_selection(selected_date, d.rows)
        group_rows == SelectIdx(filtered_df, LAMBDA i : Grouped(d.columns, filtered_df[i]), 1)
        keys == {GroupKey(d.columns, group_rows[i]) : i \in 1..Len(group_rows)}
        members(k) ==
            SelectIdx(group_rows, LAMBDA i : GroupKey(d.columns, group_rows[i]) = k, 1)
    IN  IF filtered_df = <<>>
        THEN [aggregated |-> FALSE, rows |-> filtered_df, groups |-> {}]
        ELSE [aggregated |-> TRUE, rows |-> <<>>,
              groups |-> {[P_code |-> k.P_code, category_code |-> k.category_code,
                           Class_abc |-> k.Class_abc,
                           Actual |-> SumSeq(ColumnOf(members(k), "Actual")),
                           AI_pred |-> SumSeq(ColumnOf(members(k), "AI_pred")),
                           Plan_01 |-> SumSeq(ColumnOf(members(k), "Plan_01")),
                           Date |-> selected_date] : k \in keys}]

EveryCategory == "<all>"            \* 全て

has_category(d) ==
    /\ "category_code" \in d.columns
    /\ \E i \in 1..Len(d.rows) : d.rows[i].category_code # NoCategory

category_options(d) ==
    IF has_category(d)
    THEN {EveryCategory} \cup ({d.rows[i].category_code : i \in 1..Len(d.rows)} \ {NoCategory})
    ELSE {EveryCategory}

\* what the evaluation select box lets through for the chosen period
EvaluationChoices(d, selected_date) ==
    IF is_single_month_selection(selected_date, d) THEN {SingleMonth}
    ELSE get_evaluation_method_options

\* filtered_df[filtered_df['category_code'] == selected_category]
CategoryRows(d, selected_category) ==
    IF selected_category # EveryCategory
    THEN SelectIdx(d.rows, LAMBDA i : d.rows[i].category_code = selected_category, 1)
    ELSE d.rows

apply_filters(d, selected_category, selected_date, selected_evaluation) ==
    LET filtered_df == [columns |-> d.columns, rows |-> CategoryRows(d, selected_category)]
    IN  IF selected_evaluation = Cumulative
        THEN aggregate_data_for_cumulative_evaluation(filtered_df, selected_date)
        ELSE [aggregated |-> FALSE,
              rows |-> parse_date_filter_selection(selected_date, filtered_df.rows),
              groups |-> {}]

----------------------------------------------------------------------------
(* The filters of the matrix page over small session datasets *)

MaxFilterRecs == 3

FilterMonths == {202411, 202412, 202501}

OptionalColumns == {"category_code", "Class_abc"}

FilterRow(p, date, c, l) ==
    [P_code |-> p, Date |-> date, category_code |-> c, Class_abc |-> l,
     Actual |-> I(10), AI_pred |-> I(8), Plan_01 |-> I(12)]

FilterRows(columns) ==
    {FilterRow(p, date, c, l) :
        p \in 1..2, date \in FilterMonths,
        c \in (IF "category_code" \in columns THEN {"c1", NoCategory} ELSE {NoCategory}),
        l \in (IF "Class_abc" \in columns THEN {"A", NA} ELSE {NA})}

\* one position in a fixed order of the rows, so that a set of records is
\* listed once and not once for each order of its rows
RowRank(r) ==
    ((r.P_code * 1000000 + r.Date) * 2 + (IF r.category_code = NoCategory THEN 0 ELSE 1)) * 2
        + (IF r.Class_abc = NA THEN 0 ELSE 1)

FilterFrames(columns) ==
    {[columns |-> columns, rows |-> rows] :
        rows \in UNION {{f \in [1..n -> FilterRows(columns)] :
                            \A i \in 2..n : RowRank(f[i - 1]) < RowRank(f[i])} :
                        n \in 1..MaxFilterRecs}}

\* item 1 of category c1 sold in the months ms1, item 2 without a category in ms2
TwoItems(ms1, ms2) ==
    [columns |-> OptionalColumns,
     rows |-> [i \in 1..Len(ms1) |-> FilterRow(1, ms1[i], "c1", "A")]
                  \o [i \in 1..Len(ms2) |-> FilterRow(2, ms2[i], NoCategory, "A")]]

HalfYear == <<202410, 202411, 202412, 202501, 202502, 202503>>

\* datasets of six, five and four consecutive months whose category c1 has the
\* last three only, and one with a gap
FilterScenarios ==
    { TwoItems(SubSeq(HalfYear, 4, 6), HalfYear),
      TwoItems(SubSeq(HalfYear, 3, 5), SubSeq(HalfYear, 1, 5)),
      TwoItems(SubSeq(HalfYear, 2, 4), SubSeq(HalfYear, 1, 4)),
      TwoItems(HalfYear, SubSeq(HalfYear, 1, 4)),
      TwoItems(<<202410, 202412, 202501>>, <<202410>>) }

FilInit ==
    /\ fpc = "loaded"
    /\ fdf \in UNION {FilterFrames(columns) : columns \in SUBSET OptionalColumns}
                 \cup FilterScenarios
    /\ fsel = NoSelection
    /\ fout = NoOutput
    /\ ErrIdle
    /\ ValIdle
    /\ SegIdle
    /\ UiIdle
    /\ RepIdle
    /\ SumIdle

\* one run of the page script with the three select boxes at the given entries
ApplyFilters(selected_category, selected_date, selected_evaluation) ==
    /\ fpc \in {"loaded", "filtered"}
    /\ selected_category \in category_options(fdf)
    /\ InDates(get_enhanced_date_options(fdf), selected_date)
    /\ selected_evaluation \in EvaluationChoices(fdf, selected_date)
    /\ fsel' = [category |-> selected_category, date |-> selected_date,
                evaluation |-> selected_evaluation]
    /\ fout' = apply_filters(fdf, selected_category, selected_date, selected_evaluation)
    /\ fpc' = "filtered"
    /\ UNCHANGED <<fdf, exceptFil>>

FilNext ==
    \E selected_category \in category_options(fdf) :
        \E i \in 1..Len(get_enhanced_date_options(fdf)) :
            \E selected_evaluation \in get_evaluation_method_options :
                ApplyFilters(selected_category, get_enhanced_date_options(fdf)[i],
                             selected_evaluation)

SpecFil == FilInit /\ [][FilNext]_vars

----------------------------------------------------------------------------
(* Claims about the error pipeline (SpecErr) *)

Shown == {t \in ErrorTypes : matrix[t].shown}

\* the weighted average of column col of edf, stated over a common denominator:
\* sum(value * weight) = N / P and sum(weight) = W / PW over the records R whose
\* value is present and finite
ExpectedAverageIs(col, result) ==
    LET R == {i \in 1..Len(edf) : IsNum(edf[i][col])}
        P == ProdOver(R, [i \in R |-> edf[i][col].d * edf[i].Actual.d])
        N == SumOver(R, [i \in R |->
                 edf[i][col].n * edf[i].Actual.n * (P \div (edf[i][col].d * edf[i].Actual.d))])
        PW == ProdOver(R, [i \in R |-> edf[i].Actual.d])
        W == SumOver(R, [i \in R |-> edf[i].Actual.n * (PW \div edf[i].Actual.d)])
    IN  IF R = {} \/ W = 0 THEN IsNaN(result)
        ELSE IsNum(result) /\ result.n * (W * P) = (N * PW) * result.d

\* C1: the weighted average of every view shown leaves out the records whose
\* value is absent or infinite, is undefined when none remains or the remaining
\* actual values sum to zero, and is otherwise sum(value * actual) / sum(actual);
\* for scenario A the absolute average is 7/45 (700/45 percent).
Thm_C1_WeightedAverage ==
    /\ \A t \in Shown : ExpectedAverageIs(ErrorCol(t), matrix[t].weighted_avg)
    /\ (df = ScenarioA /\ "absolute" \in Shown)
           => matrix["absolute"].weighted_avg = [k |-> "num", n |-> 7, d |-> 45]

Wit_C1_ScenarioA ==
    /\ df = ScenarioA
    /\ "absolute" \in Shown
    /\ matrix["absolute"].weighted_avg = [k |-> "num", n |-> 7, d |-> 45]

BandLabels(error_type) ==
    {ERROR_RATE_CATEGORIES(error_type)[b].label :
        b \in 1..Len(ERROR_RATE_CATEGORIES(error_type))}

Thm_C4_ErrorRates ==
    epc # "loaded" =>
        \A i \in 1..Len(df) :
            LET a == df[i].Actual
                p == df[i].Plan
                signed == edf[i].error_rate
                absolute == edf[i].absolute_error_rate
            IN  /\ edf[i].is_actual_zero <=> IsZero(a)
                /\ (IsNum(a) /\ a.n # 0 /\ IsNum(p)) =>
                       /\ IsNum(signed)
                       /\ signed.n * (p.d * a.n) = (p.n * a.d - a.n * p.d) * signed.d
                       /\ IsNum(absolute)
                       /\ absolute.d = signed.d
                       /\ absolute.n >= 0
                       /\ absolute.n \in {signed.n, -signed.n}
                /\ (~IsZero(a) /\ (IsNaN(a) \/ IsNaN(p))) =>
                       IsNaN(signed) /\ IsNaN(absolute)

Wit_C4_NegativeRateAndZeroActual ==
    /\ epc = "rates"
    /\ \E i, j \in 1..Len(df) :
           /\ edf[i].is_actual_zero
           /\ IsNum(edf[j].error_rate) /\ edf[j].error_rate.n < 0
           /\ edf[j].absolute_error_rate.n > 0

\* C15 as claimed: for every record with actual = 0, whatever its comparison
\* value (positive, zero, negative or missing), the signed error rate is the
\* non-finite sentinel, never 0 and never a missing value.
Claim_C15_ZeroActualIsSentinel ==
    epc # "loaded" =>
        \A i \in 1..Len(df) : IsZero(df[i].Actual) => IsInf(edf[i].error_rate)

\* C5 as claimed: the absolute total count is the positive total count plus the
\* negative total count, and a record whose signed rate is exactly 0 is counted
\* in the positive view and not in the negative one.
Claim_C5_CountsAddUp ==
    Shown = ErrorTypes =>
        /\ matrix["absolute"].total = matrix["positive"].total + matrix["negative"].total
        /\ \A i \in 1..Len(edf) : IsZero(edf[i].error_rate) =>
               ~IsNaN(edf[i].positive_error_rate) /\ IsNaN(edf[i].negative_error_rate)

\* C26 as claimed: in a shown matrix the count in the incalculable (zero
\* actual) band row, the seventh, is the number of records with actual = 0 for
\* the absolute and the positive view, and 0 for the negative view.
Claim_C26_ZeroActualRowCount ==
    \A t \in ErrorTypes : matrix[t].shown =>
        matrix[t].counts[7] =
            (IF t = "negative" THEN 0 ELSE Count(edf, LAMBDA r : r.is_actual_zero))

\* lower bounds of the six bands, in percent
BandLowerPercent == {0, 10, 20, 30, 50, 100}

\* C6: a finite magnitude m >= 0 gets exactly the band whose [min, max) holds it,
\* i.e. the band numbered by the count of lower bounds <= m, a boundary value
\* going to the upper band; a negative rate is banded by its magnitude.
Thm_C6_Banding ==
    epc = "matrix" =>
        \A i \in 1..Len(edf) :
            LET r == edf[i][ErrorCol(etype)]
                b == Cardinality({lo \in BandLowerPercent : lo * r.d <= 100 * AbsInt(r.n)})
            IN  (IsNum(r) /\ ~edf[i].is_actual_zero) =>
                    /\ b \in 1..6
                    /\ ecat[i] = ERROR_RATE_CATEGORIES(etype)[b].label
                    /\ \A c \in 1..6 : c # b => ecat[i] # ERROR_RATE_CATEGORIES(etype)[c].label

\* a rate of exactly -50% sits in the 50-100% band of the negative view
Wit_C6_BoundaryNegative ==
    /\ epc = "matrix"
    /\ etype = "negative"
    /\ Len(edf) = 1
    /\ edf[1].negative_error_rate = [k |-> "num", n |-> -1, d |-> 2]
    /\ ecat[1] = ERROR_RATE_CATEGORIES("negative")[5].label

----------------------------------------------------------------------------
(* Claims about the validator (SpecVal) *)

\* the arrangements of the positions of vcfg in ascending order of start ratio
SortedArrangements ==
    {p \in [1..Len(vcfg) -> 1..Len(vcfg)] :
        /\ \A i, j \in 1..Len(vcfg) : i # j => p[i] # p[j]
        /\ \A i \in 1..(Len(vcfg) - 1) : vcfg[p[i]].start_ratio <= vcfg[p[i + 1]].start_ratio}

\* C7: a tier list is accepted exactly when it is non-empty, its names are
\* pairwise distinct, every tier has 0 <= start < end <= 1 and, sorted by start,
\* no tier ends after the next one starts; a rejection carries a description.
Thm_C7_ValidatorAccepts ==
    vpc = "validated" =>
        /\ vres.ok <=>
               /\ Len(vcfg) > 0
               /\ \A i, j \in 1..Len(vcfg) : i # j => vcfg[i].name # vcfg[j].name
               /\ \A i \in 1..Len(vcfg) :
                      /\ 0 <= vcfg[i].start_ratio
                      /\ vcfg[i].start_ratio < vcfg[i].end_ratio
                      /\ vcfg[i].end_ratio <= 100
               /\ \E p \in SortedArrangements :
                      \A i \in 1..(Len(vcfg) - 1) :
                          vcfg[p[i]].end_ratio <= vcfg[p[i + 1]].start_ratio
        /\ ~vres.ok => vres.msg \notin {"", None}

\* an accepted list with a gap between its tiers
Wit_C7_GapAccepted ==
    /\ vpc = "validated"
    /\ vres.ok
    /\ \E i, j \in 1..Len(vcfg) : vcfg[i].end_ratio < vcfg[j].start_ratio

\* C8 as claimed: every accepted list, sorted by start, starts at 0, ends at 1
\* and has no overlap; the default list is contiguous as well.
Claim_C8_AcceptedCoversAll ==
    (vpc = "validated" /\ vres.ok) =>
        LET sorted == SortByStart(vcfg)
        IN  /\ sorted[1].start_ratio = 0
            /\ sorted[Len(sorted)].end_ratio = 100
            /\ \A i \in 1..(Len(sorted) - 1) : sorted[i].end_ratio <= sorted[i + 1].start_ratio
            /\ vcfg = default_categories =>
                   \A i \in 1..(Len(sorted) - 1) :
                       sorted[i].end_ratio = sorted[i + 1].start_ratio

\* C8 amended: every accepted list, sorted by start, lies within [0, 1] and has
\* no overlap between consecutive tiers; the default list is accepted, starts at
\* 0, ends at 1 and is contiguous.
Thm_C8_AcceptedWithinBounds ==
    vpc = "validated" =>
        LET sorted == SortByStart(vcfg)
        IN  /\ vres.ok =>
                   /\ sorted[1].start_ratio >= 0
                   /\ sorted[Len(sorted)].end_ratio <= 100
                   /\ \A i, j \in 1..Len(vcfg) :
                          (i # j /\ vcfg[i].start_ratio <= vcfg[j].start_ratio)
                              => vcfg[i].end_ratio <= vcfg[j].start_ratio
            /\ vcfg = default_categories =>
                   /\ vres.ok
                   /\ sorted[1].start_ratio = 0
                   /\ sorted[Len(sorted)].end_ratio = 100
                   /\ \A i \in 1..(Len(sorted) - 1) :
                          sorted[i].end_ratio = sorted[i + 1].start_ratio

\* an accepted list that does not start at 0
Wit_C8_AcceptedNotFromZero ==
    /\ vpc = "validated"
    /\ vres.ok
    /\ \A i \in 1..Len(vcfg) : vcfg[i].start_ratio > 0

\* C20: a quantity tier list is accepted exactly when it is non-empty, its
\* names are pairwise distinct, no threshold is negative and no two tiers share
\* a threshold (the thresholds strictly decrease in descending order); a
\* rejection carries a description.
Thm_C20_QuantityValidatorAccepts ==
    vpc = "quantity validated" =>
        /\ vres.ok <=>
               /\ Len(vcfg) > 0
               /\ \A i, j \in 1..Len(vcfg) : i # j => vcfg[i].name # vcfg[j].name
               /\ \A i \in 1..Len(vcfg) : vcfg[i].min_value >= 0
               /\ \A i, j \in 1..Len(vcfg) : i # j => vcfg[i].min_value # vcfg[j].min_value
        /\ ~vres.ok => vres.msg \notin {"", None}

\* an accepted list whose tiers are listed in ascending order of threshold
Wit_C20_AscendingListAccepted ==
    /\ vpc = "quantity validated"
    /\ vres.ok
    /\ Len(vcfg) >= 2
    /\ vcfg[1].min_value < vcfg[2].min_value

----------------------------------------------------------------------------
(* Claims about the segmentation engines (SpecSeg) *)

Items(d) == {d[i].P_code : i \in 1..Len(d)}

\* C3 as claimed: after a full-regeneration ratio segmentation with a
\* configuration the validator accepts, every item carries exactly one tier
\* label and that label is one of the configured tier names.
Claim_C3_EveryItemInOneConfiguredTier ==
    ( /\ spc = "done"
      /\ sargs.mode = "ratio"
      /\ sargs.target_categories = AllCategories
      /\ validate_abc_categories(sargs.categories).ok )
    => \A p \in Items(sout) :
           \E name \in Names(sargs.categories) :
               \A i \in 1..Len(sout) : sout[i].P_code = p => sout[i].Class_abc = name

\* C10 as claimed: with target categories given, every row whose category is
\* not in the list (every row without a category included) has in the output
\* the tier label, or the absence of one, that it had in the input.
Claim_C10_UntargetedRowsKeepLabel ==
    (spc = "done" /\ sargs.target_categories # AllCategories)
    => /\ Len(sout) = Len(sdf)
       /\ \A i \in 1..Len(sdf) :
              sdf[i].category_code \notin sargs.target_categories
                  => sout[i].Class_abc = sdf[i].Class_abc

\* C11 as claimed: with preserve_existing = True every row that already has a
\* non-empty tier label keeps it unless its category is one of the target
\* categories; with no target categories named no such label is overwritten.
Claim_C11_PreserveExistingKeepsLabels ==
    (spc = "done" /\ sargs.preserve_existing)
    => /\ Len(sout) = Len(sdf)
       /\ \A i \in 1..Len(sdf) :
              ( /\ sdf[i].Class_abc # NA
                /\ \/ sargs.target_categories = AllCategories
                   \/ sdf[i].category_code \notin sargs.target_categories )
              => sout[i].Class_abc = sdf[i].Class_abc

\* C12 as claimed: after any segmentation call all rows of one item carry the
\* same tier label, whatever their periods and categories.
Claim_C12_OneLabelPerItem ==
    spc = "done"
    => \A i, j \in 1..Len(sout) :
           sout[i].P_code = sout[j].P_code => sout[i].Class_abc = sout[j].Class_abc

\* C13 as claimed: a segmentation call changes nothing but the tier label:
\* same rows in the same order with the same item, period, category and actual
\* value, and the dataset passed in is left as it was.
Claim_C13_OnlyTheLabelChanges ==
    spc = "done"
    => /\ Len(sout) = Len(sdf)
       /\ \A i \in 1..Len(sdf) :
              /\ sout[i].P_code = sdf[i].P_code
              /\ sout[i].Date = sdf[i].Date
              /\ sout[i].category_code = sdf[i].category_code
              /\ sout[i].Actual = sdf[i].Actual

\* C19 as claimed: a segmentation call on an empty dataset, or on a dataset
\* without the base column, ends in an error reported to the caller and never
\* returns a dataset.
Claim_C19_EmptyOrNoBaseColumnRaises ==
    ( /\ spc \in {"done", "raised"}
      /\ (sdf = <<>> \/ sargs.base_column \notin Columns) )
    => spc = "raised"

\* C17: the quantity engine run with the tiers calculate_default_quantity_ranges
\* derives from the dataset gives every record the tier that the ratio engine
\* gives it with the default tiers (A to 50%, B to 80%, C to 100%), for some
\* order of the items of equal total.
Claim_C17_DataDefaultMatchesRatioDefault ==
    (spc = "done" /\ sargs \in SegArgsDataDefault(sdf)) =>
        \E tie \in TieOrders(sdf) :
            LET by_ratio == calculate_abc_classification(
                                sdf, default_categories, AllCategories, FALSE, tie)
            IN  \A i \in 1..Len(sdf) : sout[i].Class_abc = by_ratio[i].Class_abc

\* the contribution of row i of sdf: its actual value, 0 when absent or negative
Contribution(i) ==
    IF IsNum(sdf[i].Actual) /\ sdf[i].Actual.n > 0
    THEN sdf[i].Actual.n \div sdf[i].Actual.d
    ELSE 0

\* the partitions a call segments: the rows of each category it processes, or
\* the whole dataset when no row has a category
Partitions ==
    LET rows == 1..Len(sdf)
        present == {sdf[i].category_code : i \in rows} \ {NoCategory}
        processed == IF sargs.target_categories = AllCategories THEN present
                     ELSE present \cap sargs.target_categories
    IN  IF rows = {} THEN {}
        ELSE IF present = {} THEN {rows}
        ELSE {{i \in rows : sdf[i].category_code = c} : c \in processed}

PartitionTotal(P) == SumOver(P, [i \in P |-> Contribution(i)])

ItemTotal(P, p) ==
    LET own == {i \in P : sdf[i].P_code = p} IN SumOver(own, [i \in own |-> Contribution(i)])

\* the running sum up to and including item p when the items of P are ranked
\* by descending total, items of equal total in the order `tie`
RunningSum(P, p, tie) ==
    LET upto == {q \in {sdf[i].P_code : i \in P} :
                    \/ ItemTotal(P, q) > ItemTotal(P, p)
                    \/ ItemTotal(P, q) = ItemTotal(P, p) /\ Pos(tie, q) <= Pos(tie, p)}
    IN  SumOver(upto, [q \in upto |-> ItemTotal(P, q)])

\* the cumulative ratio cum / total lies in the interval of tier t
InTier(t, cum, total) ==
    IF t.start_ratio = 0 THEN 100 * cum <= t.end_ratio * total
    ELSE t.start_ratio * total < 100 * cum /\ 100 * cum <= t.end_ratio * total

\* C21: after a ratio segmentation there is a ranking of the items by descending
\* total contribution such that, in every partition of positive total, every
\* item whose cumulative ratio (running sum up to and including the item over
\* the partition total) lies in the interval (start, end] of a tier, [0, end]
\* for a tier that starts at 0, carries the name of such a tier.
Thm_C21_RatioTierByCumulativeRatio ==
    (spc = "done" /\ sargs.mode = "ratio") =>
        \E tie \in TieOrders(sdf) :
            \A P \in Partitions :
                PartitionTotal(P) > 0 =>
                    \A i \in P :
                        LET cum == RunningSum(P, sdf[i].P_code, tie)
                            holding == {k \in 1..Len(sargs.categories) :
                                           InTier(sargs.categories[k], cum, PartitionTotal(P))}
                        IN  holding # {} =>
                                \E k \in holding :
                                    sout[i].Class_abc = sargs.categories[k].name

\* three items of shares 50%, 30%, 20% under the default tiers: A, B and C
Wit_C21_ThreeTiersAssigned ==
    /\ spc = "done"
    /\ sargs.mode = "ratio"
    /\ sargs.categories = default_categories
    /\ Len(sdf) = 3
    /\ \A i \in 1..3 : sdf[i].category_code = "c1"
    /\ Contribution(1) = 50 /\ Contribution(2) = 30 /\ Contribution(3) = 20
    /\ sout[1].Class_abc = "A" /\ sout[2].Class_abc = "B" /\ sout[3].Class_abc = "C"

\* C22 as claimed: in every partition of positive total the item whose total
\* contribution is larger than every other item's carries the name of the tier
\* that starts at 0, whatever its share of the total.
Claim_C22_TopItemInFirstTier ==
    (spc = "done" /\ sargs.mode = "ratio") =>
        \A P \in Partitions :
            PartitionTotal(P) > 0 =>
                \A i \in P :
                    (\A j \in P : sdf[j].P_code # sdf[i].P_code
                                      => ItemTotal(P, sdf[j].P_code) < ItemTotal(P, sdf[i].P_code))
                    => \A k \in 1..Len(sargs.categories) :
                           sargs.categories[k].start_ratio = 0
                               => sout[i].Class_abc = sargs.categories[k].name

\* the name of the lowest-ranked tier of the configuration of the call: the
\* greatest start ratio, or the lowest threshold
LowestTier ==
    LET cfg == sargs.categories
        k == CHOOSE k \in 1..Len(cfg) :
                 \A j \in 1..Len(cfg) :
                     IF sargs.mode = "ratio"
                     THEN cfg[j].start_ratio <= cfg[k].start_ratio
                     ELSE cfg[k].min_value <= cfg[j].min_value
    IN  cfg[k].name

\* C24 as claimed: in a ratio segmentation every row of a partition whose total
\* contribution is zero carries the name of the lowest-ranked tier of the
\* configuration supplied to the call.
Claim_C24_ZeroTotalGetsLowestTier ==
    (spc = "done" /\ sargs.mode = "ratio") =>
        \A P \in Partitions :
            PartitionTotal(P) = 0 => \A i \in P : sout[i].Class_abc = LowestTier

\* C25 as claimed: when some row of the dataset has a category, a row without
\* one carries the lowest tier of the supplied configuration after a call
\* without target categories, in either mode, and the label it came with (none
\* if it had none) after a call with target categories.
Claim_C25_RowsWithoutCategory ==
    (spc = "done" /\ \E j \in 1..Len(sdf) : sdf[j].category_code # NoCategory) =>
        \A i \in 1..Len(sdf) :
            sdf[i].category_code = NoCategory =>
                IF sargs.target_categories = AllCategories
                THEN sout[i].Class_abc = LowestTier
                ELSE sout[i].Class_abc = sdf[i].Class_abc

\* the number of distinct periods among the rows P
Months(P) == Cardinality({sdf[i].Date : i \in P})

\* C23 as claimed: after a quantity segmentation with a configuration the
\* validator accepts, every row of a segmented partition carries the tier with
\* the highest threshold that its item's monthly average (item total over the
\* number of distinct periods) reaches, and the tier with the lowest threshold
\* when the average reaches none.
Claim_C23_HighestThresholdReached ==
    ( /\ spc = "done"
      /\ sargs.mode = "quantity"
      /\ validate_abc_quantity_categories(sargs.categories).ok )
    => \A P \in Partitions :
           \A i \in P :
               LET cfg == sargs.categories
                   reached == {k \in 1..Len(cfg) :
                                  cfg[k].min_value * Months(P) <= ItemTotal(P, sdf[i].P_code)}
               IN  IF reached = {} THEN sout[i].Class_abc = LowestTier
                   ELSE \E k \in reached :
                            /\ \A j \in reached : cfg[j].min_value <= cfg[k].min_value
                            /\ sout[i].Class_abc = cfg[k].name

\* C27 as claimed: the tiers calculate_default_quantity_ranges derives from a
\* dataset, an empty one and one of zero actual values included, are accepted
\* by validate_abc_quantity_categories.
Claim_C27_DataDefaultAccepted ==
    sargs \in SegArgsDataDefault(sdf) => validate_abc_quantity_categories(sargs.categories).ok

\* C28 as claimed: after a ratio segmentation with a configuration the validator
\* accepts, within one partition an item of strictly larger total contribution
\* is never in a tier of greater start ratio than an item of smaller total.
Claim_C28_RatioMonotone ==
    ( /\ spc = "done"
      /\ sargs.mode = "ratio"
      /\ validate_abc_categories(sargs.categories).ok )
    => \A P \in Partitions :
           \A i, j \in P :
               ItemTotal(P, sdf[i].P_code) > ItemTotal(P, sdf[j].P_code) =>
                   \A ki, kj \in 1..Len(sargs.categories) :
                       ( /\ sargs.categories[ki].name = sout[i].Class_abc
                         /\ sargs.categories[kj].name = sout[j].Class_abc )
                       => sargs.categories[ki].start_ratio <= sargs.categories[kj].start_ratio

----------------------------------------------------------------------------
(* Claims about the reports by tier (SpecRep) *)

\* the records of rdf with their error rates
Reported == ErrorData(rdf)

\* the heading a record of rdf is listed under in the tier average table
TableTier(i) == IF rdf[i].Class_abc = NA THEN Unsegmented ELSE rdf[i].Class_abc

\* the weighted average of column col over the records R of rdf is undefined:
\* no record of R has a present, finite value, or their actual values sum to zero
UndefinedAverage(R, col) ==
    LET valid == {i \in R : IsNum(Reported[i][col]) /\ IsNum(Reported[i].Actual)}
        PW == ProdOver(valid, [i \in valid |-> Reported[i].Actual.d])
        W == SumOver(valid,
                 [i \in valid |-> Reported[i].Actual.n * (PW \div Reported[i].Actual.d)])
    IN  valid = {} \/ W = 0

\* a cell that shows the not-available marker and no percentage
NotAvailable(cell) == cell.text = "-"

\* C14: an undefined weighted average is shown as the not-available marker and
\* never as a percentage, in the weighted-average cells of the band x tier matrix
\* (every column, every error type) and in the positive and negative averages
\* of every tier row of the tier average table.
Claim_C14_UndefinedAverageShownAsMarker ==
    /\ rmat.shown =>
          \A column \in DOMAIN rmat.columns :
              LET R == {i \in 1..Len(rdf) : column = Overall \/ rdf[i].Class_abc = column}
              IN  UndefinedAverage(R, ErrorCol(rmat.error_type))
                      => NotAvailable(rmat.columns[column].weighted_avg)
    /\ rtab.shown =>
          \A abc_class \in DOMAIN rtab.table.rows :
              LET R == {i \in 1..Len(rdf) : TableTier(i) = abc_class}
                  positive == {i \in R : Gt(Reported[i].error_rate, I(0))}
                  negative == {i \in R : Lt(Reported[i].error_rate, I(0))}
                  row == rtab.table.rows[abc_class]
              IN  /\ UndefinedAverage(positive, "error_rate")
                         => NotAvailable(row.positive_error_rate)
                  /\ UndefinedAverage(negative, "error_rate")
                         => NotAvailable(row.negative_error_rate)

\* C16: in the absolute view of a matrix with tier columns, the total counts of
\* the tier columns add up to the total count of the overall column, whether or
\* not every record of the dataset has a tier label.
Claim_C16_TierTotalsAddUp ==
    (rmat.shown /\ rmat.error_type = "absolute") =>
        LET tiers == DOMAIN rmat.columns \ {Overall}
        IN  tiers # {} =>
                SumOver(tiers, [t \in tiers |-> rmat.columns[t].total])
                    = rmat.columns[Overall].total

----------------------------------------------------------------------------
(* Claims about the tier summary (SpecSum) *)

\* C18: when the total actual of the dataset is positive, the percentages of
\* the tier rows of the table shown add up to 100.00%, the percentage of the
\* total row.
Claim_C18_RowsSumToHundred ==
    (mpc = "shown" /\ Gt(GroupSum(mdf, 1..Len(mdf)), I(0))) =>
        /\ mtab.total.ratio = 10000
        /\ SumOver(DOMAIN mtab.rows, [c \in DOMAIN mtab.rows |-> mtab.rows[c].ratio])
               = mtab.total.ratio

----------------------------------------------------------------------------
(* Claims about the filters of the matrix page (SpecFil) *)

\* the sum of a numeric column over the rows of an aggregated frame
RECURSIVE SumGroups(_, _)
SumGroups(G, col) ==
    IF G = {} THEN I(0)
    ELSE LET g == CHOOSE x \in G : TRUE IN Add(g[col], SumGroups(G \ {g}, col))

\* the rows apply_filters hands to the period filter and what the filter keeps
CategoryFiltered == CategoryRows(fdf, fsel.category)

PeriodFiltered == parse_date_filter_selection(fsel.date, CategoryFiltered)

\* C29 as claimed: the aggregation for cumulative evaluation loses no record of
\* the period-filtered data: the sums of Actual, AI_pred and Plan_01 over the
\* aggregated rows equal the sums over the filtered rows, and the aggregated
\* rows hold every item of the filtered rows, rows without a category or a
\* tier label included.
Claim_C29_AggregationLosesNothing ==
    (fpc = "filtered" /\ fsel.evaluation = Cumulative /\ fout.aggregated) =>
        /\ \A col \in {"Actual", "AI_pred", "Plan_01"} :
               Eq(SumGroups(fout.groups, col), SumSeq(ColumnOf(PeriodFiltered, col)))
        /\ {g.P_code : g \in fout.groups}
               = {PeriodFiltered[i].P_code : i \in 1..Len(PeriodFiltered)}

\* C30 as claimed: with a first-half or second-half option offered for the
\* dataset, apply_filters selects exactly the records of the chosen category
\* whose month lies in the range of months named in the option.
Claim_C30_HalfOptionSelectsItsMonths ==
    (fpc = "filtered" /\ fsel.date.kind \in {"first half", "second half"}
        /\ fsel.evaluation = SingleMonth) =>
        fout.rows = SelectIdx(CategoryFiltered,
                              LAMBDA i : /\ fsel.date.first <= CategoryFiltered[i].Date
                                         /\ CategoryFiltered[i].Date <= fsel.date.last, 1)

----------------------------------------------------------------------------
(* Claims about the dataset-creation page (SpecUi) *)

\* the verdict of the validator of the mode of the last generate press on the
\* tiers that were stored for that mode
Accepted ==
    IF glog.mode = "ratio" THEN validate_abc_categories(glog.categories).ok
    ELSE validate_abc_quantity_categories(glog.categories).ok

====
